---------------------------- MODULE Spec2Model ----------------------------
(***************************************************************************)
(* Model of the melee.gg scraper and metagame analyzer.                    *)
(*                                                                         *)
(* Conventions.  A Python dict is a TLA+ record or function; a key that    *)
(* may be missing is read with Get.  Python None / JSON null is the empty  *)
(* tuple <<>> and a present value v is <<v>> (Some(v)), so that optional   *)
(* values stay comparable.  A dict whose iteration order matters is kept   *)
(* as the sequence of its items in insertion order.                        *)
(*                                                                         *)
(* Specifications.  Spec is the analysis pipeline on a match list;         *)
(* FetchSpec is one call of fetch_round_matches against a listing          *)
(* endpoint; ExtractSpec is extract_round_ids on a tournament page;        *)
(* ScrapeSpec is TournamentDB.add_tournament with the scrape_tournament    *)
(* call inside it; ClassifySpec is classify_archetype on raw labels.       *)
(***************************************************************************)
EXTENDS Integers, Sequences, FiniteSets, TLC

VARIABLES pc, matches, players, archetype_map, meta, full_json,
          matrix_data, stored, site,
          \* fetch_round_matches: the listing endpoint, the position in the
          \* loop, the loop's locals, the requests issued (their offsets), the
          \* pages received (their sizes and the totals they reported) and the
          \* calls of time.sleep (how many requests and pages came before)
          endpoint, fpc, start, all_matches, requests, received, delays,
          \* round discovery: the tournament page and the markers found
          html, round_info,
          \* scrape_tournament: the position in the function, tournament.rounds,
          \* the positions of the round loop and of the record loop, the listing
          \* requests issued so far and the rounds whose error was printed
          spc, rounds, round_idx, rec_idx, listing_log, error_log,
          \* TournamentDB: the force argument, self.data["tournaments"], the
          \* file on disk and both as they were at the call, the url_or_id
          \* argument and what the call returned
          force, db, disk, db_before, url_or_id, returned,
          \* the classifier: a raw label, a decoration, and the archetypes of
          \* the label, of that archetype and of the decorated label
          raw_label, suffix, archetype, archetype_again, archetype_decorated

\* the analysis pipeline
pipeline_vars == <<pc, archetype_map, meta, full_json, matrix_data, stored, site>>

\* TournamentData.matches and TournamentData.players
tournament_vars == <<matches, players>>

\* one call of fetch_round_matches
fetch_vars == <<endpoint, fpc, start, all_matches, requests, received, delays>>

\* fetch_tournament_page and extract_round_ids
discovery_vars == <<html, round_info>>

\* scrape_tournament
scrape_vars == <<spc, rounds, round_idx, rec_idx, listing_log, error_log>>

\* TournamentDB
db_vars == <<force, db, disk, db_before, url_or_id, returned>>

\* calls of classify_archetype
classify_vars == <<raw_label, suffix, archetype, archetype_again, archetype_decorated>>

vars == <<pipeline_vars, tournament_vars, fetch_vars, discovery_vars,
          scrape_vars, db_vars, classify_vars>>

\* what fetch_round_matches leaves alone
outside_fetch_vars ==
    <<pipeline_vars, tournament_vars, discovery_vars, scrape_vars, db_vars,
      classify_vars>>

(***************************************************************************)
(* Bounds.                                                                 *)
(***************************************************************************)
\* longest match list ingested in one pass
MaxMatches == 3

\* largest recordsTotal of a consistent listing endpoint
MaxTotal == 1234

\* most records an unreliable listing endpoint puts into one page
MaxPage == 2

\* largest recordsTotal an unreliable listing endpoint reports
MaxReported == 3

\* most round buttons in one selector of a tournament page
MaxRounds == 2

\* most raw match records the listing serves during one ingestion
MaxServed == 3

\* most decorations a raw deck label carries
MaxDecorations == 1

(***************************************************************************)
(* Optional values and dict access.                                        *)
(***************************************************************************)
None == <<>>

Some(v) == <<v>>

\* dict.get(k, d)
Get(r, k, d) == IF k \in DOMAIN r THEN r[k] ELSE d

\* Python truthiness of an optional string: None and "" are falsy
Truthy(opt) == opt # None /\ opt[1] # ""

\* the item sequence of an insertion-ordered dict: set d[k] = v
RECURSIVE Lookup(_, _, _)
Lookup(items, k, d) ==
    IF items = <<>> THEN d
    ELSE IF Head(items)[1] = k THEN Head(items)[2]
         ELSE Lookup(Tail(items), k, d)

RECURSIVE Put(_, _, _)
Put(items, k, v) ==
    IF items = <<>> THEN << <<k, v>> >>
    ELSE IF Head(items)[1] = k THEN << <<k, v>> >> \o Tail(items)
         ELSE <<Head(items)>> \o Put(Tail(items), k, v)

Values(items) == [i \in 1..Len(items) |-> items[i][2]]

KeySet(items) == {items[i][1] : i \in 1..Len(items)}

(***************************************************************************)
(* The listing endpoint's raw match records (the records a round can       *)
(* return).  Players 1 and 2 share a display name.                         *)
(***************************************************************************)
DisplayNameOf(pid) ==
    CASE pid = 1 -> "Alex" [] pid = 2 -> "Alex" [] pid = 3 -> "Bo" [] OTHER -> "Cy"

RawCompetitor(pid, wins, deck) ==
    [Team |-> [ID |-> 100 + pid,
               Players |-> IF pid = 0 THEN <<>>
                           ELSE <<[ID |-> pid, DisplayName |-> DisplayNameOf(pid),
                                   Username |-> DisplayNameOf(pid)]>>],
     GameWinsAndGameByes |-> wins,
     Decklists |-> IF deck = "" THEN <<>> ELSE <<[DecklistName |-> Some(deck)]>>]

RawMatch(p1, d1, w1, p2, d2, w2, bye) ==
    [Competitors |-> <<RawCompetitor(p1, w1, d1), RawCompetitor(p2, w2, d2)>>,
     ByeReason |-> IF bye THEN Some(1) ELSE None,
     ByeReasonDescription |-> IF bye THEN Some("Awarded") ELSE None,
     GameDraws |-> 0,
     ResultString |-> "result",
     Format |-> Some("Standard")]

RawBye(p1, d1, w1) ==
    [Competitors |-> <<RawCompetitor(p1, w1, d1)>>,
     ByeReason |-> Some(1),
     ByeReasonDescription |-> Some("Bye"),
     GameDraws |-> 0,
     ResultString |-> "bye",
     Format |-> Some("Standard")]

RawRecords ==
    { \* two archetypes meet three times: 3-1, 1-2, 1-1
      RawMatch(1, "UR Prowess v2", 3, 3, "Mono-Red Aggro", 1, FALSE),
      RawMatch(1, "UR Prowess v2", 1, 3, "Mono-Red Aggro", 2, FALSE),
      RawMatch(1, "UR Prowess v2", 1, 3, "Mono-Red Aggro", 1, FALSE),
      \* two labels of one archetype; the two players share a display name
      RawMatch(1, "UR Prowess v2", 3, 2, "Izzet Prowess", 1, FALSE),
      \* the same raw label on both sides
      RawMatch(2, "Mono-Red Aggro", 1, 3, "Mono-Red Aggro", 1, FALSE),
      RawMatch(4, "Mono-Red Aggro", 1, 3, "Mono-Red Aggro", 2, FALSE),
      \* player 1 on another label
      RawMatch(1, "Izzet Prowess", 1, 4, "Mono-Red Aggro", 2, FALSE),
      \* one label missing, both labels missing
      RawMatch(1, "Mono-Red Aggro", 3, 2, "", 1, FALSE),
      RawMatch(2, "", 1, 3, "", 2, FALSE),
      \* a bye, an explicit bye marker on a two-competitor record
      RawBye(3, "Mono-Red Aggro", 2),
      RawMatch(1, "UR Prowess v2", 3, 3, "Mono-Red Aggro", 1, TRUE),
      \* second competitor without team members but with a decklist
      RawMatch(1, "Izzet Prowess", 3, 0, "Mono-Red Aggro", 1, FALSE) }

\* a JSON object lists under Null the keys whose value is null where the
\* code expects a list or an object
IsNullAt(obj, key) == key \in Get(obj, "Null", {})

\* the records the listing of a round serves: two well-formed records in
\* which player 1 appears under two display names, a record whose
\* Competitors is null and a record without Competitors
RoundRecords ==
    { RawMatch(1, "Izzet Prowess", 3, 3, "Mono-Red Aggro", 1, FALSE),
      [RawMatch(2, "Mono-Red Aggro", 1, 1, "Izzet Prowess", 2, FALSE)
          EXCEPT !.Competitors[2].Team.Players[1].DisplayName = "Alexandra"],
      [Null |-> {"Competitors"}, ResultString |-> "void"],
      [ResultString |-> "void"] }

(***************************************************************************)
(* Match Normalizer (melee_scraper.py).                                    *)
(***************************************************************************)
\* parse_match raises: len(None) on a null Competitors (line 232), None.get
\* on a null Team of one of the first two competitors (line 217)
ParseRaises(match_json) ==
    \/ IsNullAt(match_json, "Competitors")
    \/ LET competitors == Get(match_json, "Competitors", <<>>)
       IN  \E i \in 1..Len(competitors) : i <= 2 /\ IsNullAt(competitors[i], "Team")

parse_player_from_competitor(comp) ==
    LET team == Get(comp, "Team", <<>>)
        ps   == Get(team, "Players", <<>>)
    IN  IF ps = <<>> THEN None
        ELSE Some([id |-> Get(ps[1], "ID", 0),
                   display_name |-> Get(ps[1], "DisplayName", "Unknown"),
                   username |-> Get(ps[1], "Username", ""),
                   team_id |-> Get(team, "ID", 0)])

DecklistOf(comp) ==
    IF Get(comp, "Decklists", <<>>) # <<>>
    THEN Get(comp["Decklists"][1], "DecklistName", None)
    ELSE None

parse_match(match_json, round_number, round_id) ==
    LET competitors == Get(match_json, "Competitors", <<>>)
        n == Len(competitors)
    IN  [round_number |-> round_number,
         round_id |-> round_id,
         player1 |-> IF n > 0 THEN parse_player_from_competitor(competitors[1]) ELSE None,
         player2 |-> IF n > 1 THEN parse_player_from_competitor(competitors[2]) ELSE None,
         player1_wins |-> IF n > 0 THEN Get(competitors[1], "GameWinsAndGameByes", 0) ELSE 0,
         player2_wins |-> IF n > 1 THEN Get(competitors[2], "GameWinsAndGameByes", 0) ELSE 0,
         draws |-> Get(match_json, "GameDraws", 0),
         is_bye |-> (Get(match_json, "ByeReason", None) # None \/ n < 2),
         bye_reason |-> Get(match_json, "ByeReasonDescription", None),
         result_string |-> Get(match_json, "ResultString", ""),
         player1_decklist |-> IF n > 0 THEN DecklistOf(competitors[1]) ELSE None,
         player2_decklist |-> IF n > 1 THEN DecklistOf(competitors[2]) ELSE None,
         format_name |-> Get(match_json, "Format", None)]

\* a registration that keeps the entry an id already has
RegisterPlayer_KeepFirst(ps, p) ==
    IF p = None \/ p[1].id \in KeySet(ps) THEN ps ELSE Put(ps, p[1].id, p[1])

\* tournament.players[p.id] = p
RegisterPlayer(ps, p) == IF p = None THEN ps ELSE Put(ps, p[1].id, p[1])

(***************************************************************************)
(* Archetype Classifier (meta_analyzer.py).  Strings are normalized as     *)
(* sequences of characters.                                                *)
(***************************************************************************)
\* ARCHETYPE_ALIASES, in source order
ARCHETYPE_ALIASES ==
    << <<"Izzet Lessons", "Izzet Prowess">>,
       <<"Izzet Spellementals", "Izzet Prowess">>,
       <<"Izzet Elementals", "Izzet Prowess">>,
       <<"UR Prowess", "Izzet Prowess">>,
       <<"UR Lessons", "Izzet Prowess">>,
       <<"Izzet Spells", "Izzet Prowess">>,
       <<"Dimir Excruciator", "Dimir Midrange">>,
       <<"Dimir Control", "Dimir Midrange">>,
       <<"UB Midrange", "Dimir Midrange">>,
       <<"UB Control", "Dimir Midrange">>,
       <<"Mono-Green Landfall", "Mono-Green Aggro">>,
       <<"Mono Green Landfall", "Mono-Green Aggro">>,
       <<"Mono Green Aggro", "Mono-Green Aggro">>,
       <<"Mono-Green Ramp", "Mono-Green Aggro">>,
       <<"Simic Rhythm", "Simic Midrange">>,
       <<"Simic Ramp", "Simic Midrange">>,
       <<"UG Midrange", "Simic Midrange">>,
       <<"Azorius Tempo", "Azorius Tempo">>,
       <<"Azorius Control", "Azorius Control">>,
       <<"UW Tempo", "Azorius Tempo">>,
       <<"UW Control", "Azorius Control">>,
       <<"Boros Dragons", "Boros Dragons">>,
       <<"Boros Aggro", "Boros Aggro">>,
       <<"RW Aggro", "Boros Aggro">>,
       <<"Jeskai Control", "Jeskai Control">>,
       <<"Temur Harmonizer", "Temur Midrange">>,
       <<"Temur Midrange", "Temur Midrange">>,
       <<"Bant Airbending", "Bant Midrange">>,
       <<"Bant Midrange", "Bant Midrange">>,
       <<"Mono-Red Aggro", "Mono-Red Aggro">>,
       <<"Mono Red Aggro", "Mono-Red Aggro">>,
       <<"RDW", "Mono-Red Aggro">>,
       <<"Rakdos Monument", "Rakdos Midrange">>,
       <<"Rakdos Midrange", "Rakdos Midrange">> >>

\* the strings the model spells out
KnownNames ==
    { "Izzet Lessons",
      "Izzet Prowess",
      "Izzet Spellementals",
      "Izzet Elementals",
      "UR Prowess",
      "UR Lessons",
      "Izzet Spells",
      "Dimir Excruciator",
      "Dimir Midrange",
      "Dimir Control",
      "UB Midrange",
      "UB Control",
      "Mono-Green Landfall",
      "Mono-Green Aggro",
      "Mono Green Landfall",
      "Mono Green Aggro",
      "Mono-Green Ramp",
      "Simic Rhythm",
      "Simic Midrange",
      "Simic Ramp",
      "UG Midrange",
      "Azorius Tempo",
      "Azorius Control",
      "UW Tempo",
      "UW Control",
      "Boros Dragons",
      "Boros Aggro",
      "RW Aggro",
      "Jeskai Control",
      "Temur Harmonizer",
      "Temur Midrange",
      "Bant Airbending",
      "Bant Midrange",
      "Mono-Red Aggro",
      "Mono Red Aggro",
      "RDW",
      "Rakdos Monument",
      "Rakdos Midrange",
      "UR Prowess v2",
      "Boros Dragons (Post-Ban)" }

\* the characters of a string
Chars ==
    [s \in KnownNames |->
        CASE s = "Izzet Lessons" -> <<"I","z","z","e","t"," ","L","e","s","s","o","n","s">>
          [] s = "Izzet Prowess" -> <<"I","z","z","e","t"," ","P","r","o","w","e","s","s">>
          [] s = "Izzet Spellementals" -> <<"I","z","z","e","t"," ","S","p","e","l","l","e","m","e","n","t","a","l","s">>
          [] s = "Izzet Elementals" -> <<"I","z","z","e","t"," ","E","l","e","m","e","n","t","a","l","s">>
          [] s = "UR Prowess" -> <<"U","R"," ","P","r","o","w","e","s","s">>
          [] s = "UR Lessons" -> <<"U","R"," ","L","e","s","s","o","n","s">>
          [] s = "Izzet Spells" -> <<"I","z","z","e","t"," ","S","p","e","l","l","s">>
          [] s = "Dimir Excruciator" -> <<"D","i","m","i","r"," ","E","x","c","r","u","c","i","a","t","o","r">>
          [] s = "Dimir Midrange" -> <<"D","i","m","i","r"," ","M","i","d","r","a","n","g","e">>
          [] s = "Dimir Control" -> <<"D","i","m","i","r"," ","C","o","n","t","r","o","l">>
          [] s = "UB Midrange" -> <<"U","B"," ","M","i","d","r","a","n","g","e">>
          [] s = "UB Control" -> <<"U","B"," ","C","o","n","t","r","o","l">>
          [] s = "Mono-Green Landfall" -> <<"M","o","n","o","-","G","r","e","e","n"," ","L","a","n","d","f","a","l","l">>
          [] s = "Mono-Green Aggro" -> <<"M","o","n","o","-","G","r","e","e","n"," ","A","g","g","r","o">>
          [] s = "Mono Green Landfall" -> <<"M","o","n","o"," ","G","r","e","e","n"," ","L","a","n","d","f","a","l","l">>
          [] s = "Mono Green Aggro" -> <<"M","o","n","o"," ","G","r","e","e","n"," ","A","g","g","r","o">>
          [] s = "Mono-Green Ramp" -> <<"M","o","n","o","-","G","r","e","e","n"," ","R","a","m","p">>
          [] s = "Simic Rhythm" -> <<"S","i","m","i","c"," ","R","h","y","t","h","m">>
          [] s = "Simic Midrange" -> <<"S","i","m","i","c"," ","M","i","d","r","a","n","g","e">>
          [] s = "Simic Ramp" -> <<"S","i","m","i","c"," ","R","a","m","p">>
          [] s = "UG Midrange" -> <<"U","G"," ","M","i","d","r","a","n","g","e">>
          [] s = "Azorius Tempo" -> <<"A","z","o","r","i","u","s"," ","T","e","m","p","o">>
          [] s = "Azorius Control" -> <<"A","z","o","r","i","u","s"," ","C","o","n","t","r","o","l">>
          [] s = "UW Tempo" -> <<"U","W"," ","T","e","m","p","o">>
          [] s = "UW Control" -> <<"U","W"," ","C","o","n","t","r","o","l">>
          [] s = "Boros Dragons" -> <<"B","o","r","o","s"," ","D","r","a","g","o","n","s">>
          [] s = "Boros Aggro" -> <<"B","o","r","o","s"," ","A","g","g","r","o">>
          [] s = "RW Aggro" -> <<"R","W"," ","A","g","g","r","o">>
          [] s = "Jeskai Control" -> <<"J","e","s","k","a","i"," ","C","o","n","t","r","o","l">>
          [] s = "Temur Harmonizer" -> <<"T","e","m","u","r"," ","H","a","r","m","o","n","i","z","e","r">>
          [] s = "Temur Midrange" -> <<"T","e","m","u","r"," ","M","i","d","r","a","n","g","e">>
          [] s = "Bant Airbending" -> <<"B","a","n","t"," ","A","i","r","b","e","n","d","i","n","g">>
          [] s = "Bant Midrange" -> <<"B","a","n","t"," ","M","i","d","r","a","n","g","e">>
          [] s = "Mono-Red Aggro" -> <<"M","o","n","o","-","R","e","d"," ","A","g","g","r","o">>
          [] s = "Mono Red Aggro" -> <<"M","o","n","o"," ","R","e","d"," ","A","g","g","r","o">>
          [] s = "RDW" -> <<"R","D","W">>
          [] s = "Rakdos Monument" -> <<"R","a","k","d","o","s"," ","M","o","n","u","m","e","n","t">>
          [] s = "Rakdos Midrange" -> <<"R","a","k","d","o","s"," ","M","i","d","r","a","n","g","e">>
          [] s = "UR Prowess v2" -> <<"U","R"," ","P","r","o","w","e","s","s"," ","v","2">>
          [] s = "Boros Dragons (Post-Ban)" -> <<"B","o","r","o","s"," ","D","r","a","g","o","n","s"," ","(","P","o","s","t","-","B","a","n",")">>]

\* the string spelled by a character sequence
Str(t) == CHOOSE s \in KnownNames : Chars[s] = t

IsSpace(c) == c \in {" ", "\t"}

IsDigit(c) == c \in {"0", "1", "2", "3", "4", "5", "6", "7", "8", "9"}

\* str.lower() on one character
LowerChar(c) ==
    CASE c = "A" -> "a" [] c = "B" -> "b" [] c = "C" -> "c" [] c = "D" -> "d"
      [] c = "E" -> "e" [] c = "F" -> "f" [] c = "G" -> "g" [] c = "H" -> "h"
      [] c = "I" -> "i" [] c = "J" -> "j" [] c = "K" -> "k" [] c = "L" -> "l"
      [] c = "M" -> "m" [] c = "N" -> "n" [] c = "O" -> "o" [] c = "P" -> "p"
      [] c = "Q" -> "q" [] c = "R" -> "r" [] c = "S" -> "s" [] c = "T" -> "t"
      [] c = "U" -> "u" [] c = "V" -> "v" [] c = "W" -> "w" [] c = "X" -> "x"
      [] c = "Y" -> "y" [] c = "Z" -> "z" [] OTHER -> c

Lower(t) == [i \in 1..Len(t) |-> LowerChar(t[i])]

RECURSIVE LStrip(_)
LStrip(t) == IF t # <<>> /\ IsSpace(Head(t)) THEN LStrip(Tail(t)) ELSE t

RECURSIVE RStrip(_)
RStrip(t) ==
    IF t # <<>> /\ IsSpace(t[Len(t)]) THEN RStrip(SubSeq(t, 1, Len(t) - 1)) ELSE t

Strip(t) == RStrip(LStrip(t))

\* first index >= i that holds no whitespace (Len(t) + 1 if none)
RECURSIVE SkipSpaces(_, _)
SkipSpaces(t, i) ==
    IF i <= Len(t) /\ IsSpace(t[i]) THEN SkipSpaces(t, i + 1) ELSE i

\* first index >= i that holds ")" (0 if none)
RECURSIVE FindClose(_, _)
FindClose(t, i) ==
    IF i > Len(t) THEN 0
    ELSE IF t[i] = ")" THEN i ELSE FindClose(t, i + 1)

\* re.sub(r'\s*\(.*?\)\s*', '', name), scanning from index i
RECURSIVE RemoveParens(_, _)
RemoveParens(t, i) ==
    IF i > Len(t) THEN <<>>
    ELSE LET j == SkipSpaces(t, i)
             k == IF j <= Len(t) /\ t[j] = "(" THEN FindClose(t, j + 1) ELSE 0
         IN  IF k # 0 THEN RemoveParens(t, SkipSpaces(t, k + 1))
             ELSE <<t[i]>> \o RemoveParens(t, i + 1)

\* start of the maximal run of digits that ends at index e
RECURSIVE DigitsStart(_, _)
DigitsStart(t, e) ==
    IF e >= 1 /\ IsDigit(t[e]) THEN DigitsStart(t, e - 1) ELSE e + 1

\* re.sub(r'\s*<marker>\d+\s*$', '', name) for a marker character set
RemoveTrailingMarker(t, markers) ==
    LET e == Len(RStrip(t))
        d == DigitsStart(t, e)
    IN  IF d <= e /\ d >= 2 /\ t[d - 1] \in markers
        THEN RStrip(SubSeq(t, 1, d - 2))
        ELSE t

\* re.sub(r'\s+', ' ', name)
RECURSIVE CollapseSpaces(_, _)
CollapseSpaces(t, i) ==
    IF i > Len(t) THEN <<>>
    ELSE IF IsSpace(t[i]) THEN <<" ">> \o CollapseSpaces(t, SkipSpaces(t, i))
         ELSE <<t[i]>> \o CollapseSpaces(t, i + 1)

normalize_deck_name(t) ==
    LET a == Strip(t)
        b == RemoveParens(a, 1)
        c == RemoveTrailingMarker(b, {"v", "V"})
        d == RemoveTrailingMarker(c, {"#"})
    IN  Strip(CollapseSpaces(d, 1))

\* the first alias, in table order, equal to the name ignoring case (0 if none)
RECURSIVE FindAliasIgnoreCase(_, _)
FindAliasIgnoreCase(t, i) ==
    IF i > Len(ARCHETYPE_ALIASES) THEN 0
    ELSE IF Lower(t) = Lower(Chars[ARCHETYPE_ALIASES[i][1]]) THEN i
         ELSE FindAliasIgnoreCase(t, i + 1)

\* the alias equal to the name (0 if none)
RECURSIVE FindAlias(_, _)
FindAlias(t, i) ==
    IF i > Len(ARCHETYPE_ALIASES) THEN 0
    ELSE IF t = Chars[ARCHETYPE_ALIASES[i][1]] THEN i
         ELSE FindAlias(t, i + 1)

\* classify_archetype on the characters of the label
classify_chars(t) ==
    LET normalized == normalize_deck_name(t)
        exact == FindAlias(normalized, 1)
        ci    == FindAliasIgnoreCase(normalized, 1)
    IN  IF exact # 0 THEN Chars[ARCHETYPE_ALIASES[exact][2]]
        ELSE IF ci # 0 THEN Chars[ARCHETYPE_ALIASES[ci][2]]
        ELSE normalized

classify_archetype(deck_name) == Str(classify_chars(Chars[deck_name]))

(***************************************************************************)
(* Metagame Aggregator (meta_analyzer.py).                                 *)
(***************************************************************************)
\* a matchup cell as the defaultdict creates it
ZeroCell == [wins |-> 0, losses |-> 0, draws |-> 0, total |-> 0]

\* an arch_stats / deck_stats entry as the defaultdict creates it
ZeroStats == [wins |-> 0, losses |-> 0, draws |-> 0]

\* matchups[a][b], a missing cell read as the default
Cell(mx, a, b) == IF <<a, b>> \in DOMAIN mx THEN mx[<<a, b>>] ELSE ZeroCell

\* matchups[a][b][field] += 1
BumpCell(mx, a, b, field) ==
    [p \in DOMAIN mx \cup {<<a, b>>} |->
        IF p = <<a, b>>
        THEN [Cell(mx, a, b) EXCEPT ![field] = Cell(mx, a, b)[field] + 1]
        ELSE mx[p]]

Stats(st, a) == IF a \in DOMAIN st THEN st[a] ELSE ZeroStats

\* arch_stats[a][field] += 1
BumpStats(st, a, field) ==
    [k \in DOMAIN st \cup {a} |->
        IF k = a THEN [Stats(st, a) EXCEPT ![field] = Stats(st, a)[field] + 1]
        ELSE st[k]]

\* a sort that leaves the items in dict order
SortDesc_Unsorted(items) == items

\* sorted(items, key = second component, reverse=True): stable
RECURSIVE InsertDesc(_, _)
InsertDesc(sorted, x) ==
    IF sorted = <<>> THEN <<x>>
    ELSE IF Head(sorted)[2] >= x[2] THEN <<Head(sorted)>> \o InsertDesc(Tail(sorted), x)
         ELSE <<x>> \o sorted

RECURSIVE SortDesc(_)
SortDesc(items) ==
    IF items = <<>> THEN <<>>
    ELSE InsertDesc(SortDesc(SubSeq(items, 1, Len(items) - 1)), items[Len(items)])

\* Counter(values): items in first-occurrence order
RECURSIVE Counter(_)
Counter(values) ==
    IF values = <<>> THEN <<>>
    ELSE LET c == Counter(SubSeq(values, 1, Len(values) - 1))
             v == values[Len(values)]
         IN  Put(c, v, Lookup(c, v, 0) + 1)

\* the deck names of the match list
DeckNames(ms) ==
    {ms[i].player1_decklist[1] : i \in {j \in 1..Len(ms) : Truthy(ms[j].player1_decklist)}}
    \cup
    {ms[i].player2_decklist[1] : i \in {j \in 1..Len(ms) : Truthy(ms[j].player2_decklist)}}

build_archetype_map(ms) == [name \in DeckNames(ms) |-> classify_archetype(name)]

\* archetype_map.get(label, label)
ArchetypeOf(amap, label) == IF label \in DOMAIN amap THEN amap[label] ELSE label

\* lines 333-340: one iteration of the player_archetypes loop
ResolvePlayers(pa, m, amap) ==
    LET pa1 == IF m.player1 # None /\ Truthy(m.player1_decklist)
               THEN Put(pa, m.player1[1].id, ArchetypeOf(amap, m.player1_decklist[1]))
               ELSE pa
    IN  IF m.player2 # None /\ Truthy(m.player2_decklist)
        THEN Put(pa1, m.player2[1].id, ArchetypeOf(amap, m.player2_decklist[1]))
        ELSE pa1

RECURSIVE PlayerArchetypes(_, _)
PlayerArchetypes(ms, amap) ==
    IF ms = <<>> THEN <<>>
    ELSE ResolvePlayers(PlayerArchetypes(SubSeq(ms, 1, Len(ms) - 1), amap),
                        ms[Len(ms)], amap)

\* a skip test that forgets the bye flag
Skipped_IgnoresByeFlag(m) ==
    \/ m.player1 = None \/ m.player2 = None
    \/ ~Truthy(m.player1_decklist) \/ ~Truthy(m.player2_decklist)

\* lines 359-362: the matches the accumulation loop skips
Skipped(m) ==
    \/ m.is_bye \/ m.player1 = None \/ m.player2 = None
    \/ ~Truthy(m.player1_decklist) \/ ~Truthy(m.player2_decklist)

\* an accumulation that books the first side's outcome on both sides
Accumulate_SameOutcomeBothSides(acc, m, amap) ==
    IF Skipped(m) THEN acc
    ELSE LET a1 == ArchetypeOf(amap, m.player1_decklist[1])
             a2 == ArchetypeOf(amap, m.player2_decklist[1])
             f1 == IF m.player1_wins > m.player2_wins THEN "wins"
                   ELSE IF m.player2_wins > m.player1_wins THEN "losses" ELSE "draws"
             mx == BumpCell(BumpCell(acc.matchups, a1, a2, f1), a2, a1, f1)
             st == BumpStats(BumpStats(acc.arch_stats, a1, f1), a2, f1)
         IN  [matchups |-> BumpCell(BumpCell(mx, a1, a2, "total"), a2, a1, "total"),
              arch_stats |-> st]

\* an accumulation that books a match with drawn games as a draw
Accumulate_DrawsFromGameDraws(acc, m, amap) ==
    IF Skipped(m) THEN acc
    ELSE LET a1 == ArchetypeOf(amap, m.player1_decklist[1])
             a2 == ArchetypeOf(amap, m.player2_decklist[1])
             f1 == IF m.draws > 0 THEN "draws"
                   ELSE IF m.player1_wins > m.player2_wins THEN "wins"
                   ELSE IF m.player2_wins > m.player1_wins THEN "losses" ELSE "draws"
             f2 == IF m.draws > 0 THEN "draws"
                   ELSE IF m.player1_wins > m.player2_wins THEN "losses"
                   ELSE IF m.player2_wins > m.player1_wins THEN "wins" ELSE "draws"
             mx == BumpCell(BumpCell(acc.matchups, a1, a2, f1), a2, a1, f2)
             st == BumpStats(BumpStats(acc.arch_stats, a1, f1), a2, f2)
         IN  [matchups |-> BumpCell(BumpCell(mx, a1, a2, "total"), a2, a1, "total"),
              arch_stats |-> st]

\* lines 364-384: one iteration of the accumulation loop
Accumulate(acc, m, amap) ==
    IF Skipped(m) THEN acc
    ELSE LET a1 == ArchetypeOf(amap, m.player1_decklist[1])
             a2 == ArchetypeOf(amap, m.player2_decklist[1])
             f1 == IF m.player1_wins > m.player2_wins THEN "wins"
                   ELSE IF m.player2_wins > m.player1_wins THEN "losses" ELSE "draws"
             f2 == IF m.player1_wins > m.player2_wins THEN "losses"
                   ELSE IF m.player2_wins > m.player1_wins THEN "wins" ELSE "draws"
             mx == BumpCell(BumpCell(acc.matchups, a1, a2, f1), a2, a1, f2)
             st == BumpStats(BumpStats(acc.arch_stats, a1, f1), a2, f2)
         IN  [matchups |-> BumpCell(BumpCell(mx, a1, a2, "total"), a2, a1, "total"),
              arch_stats |-> st]

RECURSIVE AccumulateAll(_, _)
AccumulateAll(ms, amap) ==
    IF ms = <<>> THEN [matchups |-> <<>>, arch_stats |-> <<>>]
    ELSE Accumulate(AccumulateAll(SubSeq(ms, 1, Len(ms) - 1), amap), ms[Len(ms)], amap)

\* lines 386-399: the Archetype objects, in the order of the archetypes dict
ArchetypeObjects(order, arch_stats, amap) ==
    [i \in 1..Len(order) |->
        [name |-> order[i][1],
         deck_names |-> {dn \in DOMAIN amap : amap[dn] = order[i][1]},
         count |-> order[i][3],
         wins |-> Stats(arch_stats, order[i][1]).wins,
         losses |-> Stats(arch_stats, order[i][1]).losses,
         draws |-> Stats(arch_stats, order[i][1]).draws]]

\* a total that counts the archetypes instead of the players
TotalPlayersWithDeck_CountsArchetypes(player_archetypes) ==
    Cardinality({player_archetypes[i][2] : i \in 1..Len(player_archetypes)})

\* line 344: len(player_archetypes)
TotalPlayersWithDeck(player_archetypes) == Len(player_archetypes)

\* meta_share is count / total_players_with_deck * 100, kept as the fraction
\* num / den; player_archetypes and arch_stats are the function's local dicts
analyze_metagame(ms, amap) ==
    LET player_archetypes == PlayerArchetypes(ms, amap)
        arch_counts == Counter(Values(player_archetypes))
        total_players_with_deck == TotalPlayersWithDeck(player_archetypes)
        meta_share == [i \in 1..Len(arch_counts) |->
                         <<arch_counts[i][1], arch_counts[i][2] * 100, arch_counts[i][2]>>]
        acc == AccumulateAll(ms, amap)
    IN  [archetypes |-> ArchetypeObjects(SortDesc(meta_share), acc.arch_stats, amap),
         matchup_matrix |-> acc.matchups,
         meta_share |-> [i \in 1..Len(meta_share) |->
                            [name |-> meta_share[i][1], num |-> meta_share[i][2],
                             den |-> total_players_with_deck]],
         total_players |-> total_players_with_deck,
         total_matches |-> Cardinality({i \in 1..Len(ms) : ~ms[i].is_bye}),
         deck_to_archetype |-> amap,
         player_archetypes |-> player_archetypes,
         arch_stats |-> acc.arch_stats]

\* round(num / den * scale): Python rounds halves to even
RoundDiv(num, den) ==
    LET q == num \div den
        r == num % den
    IN  IF 2 * r < den THEN q
        ELSE IF 2 * r > den THEN q + 1
        ELSE IF q % 2 = 0 THEN q ELSE q + 1

\* Archetype.total_matches, lines 73-75
total_matches(arch) == arch.wins + arch.losses + arch.draws

\* Archetype.winrate, lines 77-79, rounded to hundredths of a percent as
\* export_full_json writes it
winrate(arch) ==
    IF total_matches(arch) > 0
    THEN RoundDiv(arch.wins * 10000, total_matches(arch)) ELSE 0

\* lines 847-876: the archetypes list and the matchup_matrix of the JSON output
export_full_json(m) ==
    LET keyed == [i \in 1..Len(m.archetypes) |-> <<m.archetypes[i], m.archetypes[i].count>>]
        order == SortDesc(keyed)
    IN  [archetypes |-> [i \in 1..Len(order) |->
                            [name |-> order[i][1].name,
                             pilots |-> order[i][1].count,
                             wins |-> order[i][1].wins,
                             losses |-> order[i][1].losses,
                             draws |-> order[i][1].draws,
                             winrate |-> winrate(order[i][1])]],
         matchup_matrix |-> m.matchup_matrix,
         total_players |-> m.total_players]

(***************************************************************************)
(* Deck-versus-deck matrix and export (melee_scraper.py).                  *)
(***************************************************************************)
\* lines 343-346: the matches build_matchup_matrix skips
MatrixSkipped(m) ==
    \/ m.is_bye \/ m.player1 = None \/ m.player2 = None
    \/ ~Truthy(m.player1_decklist) \/ ~Truthy(m.player2_decklist)

\* a loop body that books a missing label as the deck "Unknown"
MatrixStep_UnknownDeck(acc, m) ==
    IF m.is_bye \/ m.player1 = None \/ m.player2 = None THEN acc
    ELSE LET d1 == IF Truthy(m.player1_decklist) THEN m.player1_decklist[1] ELSE "Unknown"
             d2 == IF Truthy(m.player2_decklist) THEN m.player2_decklist[1] ELSE "Unknown"
             f1 == IF m.player1_wins > m.player2_wins THEN "wins"
                   ELSE IF m.player2_wins > m.player1_wins THEN "losses" ELSE "draws"
             f2 == IF m.player1_wins > m.player2_wins THEN "losses"
                   ELSE IF m.player2_wins > m.player1_wins THEN "wins" ELSE "draws"
             mx == BumpCell(BumpCell(acc.matrix, d1, d2, f1), d2, d1, f2)
         IN  [matrix |-> BumpCell(BumpCell(mx, d1, d2, "total"), d2, d1, "total"),
              player_matches |-> acc.player_matches]

\* lines 348-379: one iteration of the loop of build_matchup_matrix
MatrixStep(acc, m) ==
    IF MatrixSkipped(m) THEN acc
    ELSE LET d1 == m.player1_decklist[1]
             d2 == m.player2_decklist[1]
             f1 == IF m.player1_wins > m.player2_wins THEN "wins"
                   ELSE IF m.player2_wins > m.player1_wins THEN "losses" ELSE "draws"
             f2 == IF m.player1_wins > m.player2_wins THEN "losses"
                   ELSE IF m.player2_wins > m.player1_wins THEN "wins" ELSE "draws"
             mx == BumpCell(BumpCell(acc.matrix, d1, d2, f1), d2, d1, f2)
         IN  [matrix |-> BumpCell(BumpCell(mx, d1, d2, "total"), d2, d1, "total"),
              player_matches |-> Append(acc.player_matches,
                  [round |-> m.round_number,
                   player1 |-> m.player1[1].display_name,
                   player1_deck |-> d1,
                   player1_wins |-> m.player1_wins,
                   player2 |-> m.player2[1].display_name,
                   player2_deck |-> d2,
                   player2_wins |-> m.player2_wins,
                   draws |-> m.draws,
                   winner |-> IF f1 = "wins" THEN m.player1[1].display_name
                              ELSE IF f1 = "losses" THEN m.player2[1].display_name
                              ELSE "Draw",
                   result |-> m.result_string])]

RECURSIVE MatrixLoop(_)
MatrixLoop(ms) ==
    IF ms = <<>> THEN [matrix |-> <<>>, player_matches |-> <<>>]
    ELSE MatrixStep(MatrixLoop(SubSeq(ms, 1, Len(ms) - 1)), ms[Len(ms)])

\* decks is the sorted list of the labels of the matrix, kept as their set
build_matchup_matrix(ms) ==
    LET acc == MatrixLoop(ms)
    IN  [decks |-> {p[1] : p \in DOMAIN acc.matrix} \cup {p[2] : p \in DOMAIN acc.matrix},
         matrix |-> acc.matrix,
         player_matches |-> acc.player_matches]

\* export_json and TournamentDB.add_tournament write the same document
export_json(ms, ps, md) ==
    [tournament |-> [total_matches |-> Len(ms), total_players |-> Len(ps)],
     matchup_matrix |-> [decks |-> md.decks, matrix |-> md.matrix],
     matches |-> md.player_matches]

(***************************************************************************)
(* Site generator (generate_site.py).                                      *)
(***************************************************************************)
\* lines 41-45: one iteration of the player_deck loop
PlayerDeckStep(pd, m) ==
    LET pd1 == IF Get(m, "player1_deck", "") # ""
               THEN Put(pd, m.player1, m.player1_deck) ELSE pd
    IN  IF Get(m, "player2_deck", "") # ""
        THEN Put(pd1, m.player2, m.player2_deck) ELSE pd1

RECURSIVE PlayerDeck(_)
PlayerDeck(ms) ==
    IF ms = <<>> THEN <<>>
    ELSE PlayerDeckStep(PlayerDeck(SubSeq(ms, 1, Len(ms) - 1)), ms[Len(ms)])

\* lines 53-68: one iteration of the deck_stats loop
DeckStatsStep(st, m) ==
    LET d1 == Get(m, "player1_deck", "")
        d2 == Get(m, "player2_deck", "")
        p1w == Get(m, "player1_wins", 0)
        p2w == Get(m, "player2_wins", 0)
    IN  IF d1 = "" \/ d2 = "" THEN st
        ELSE IF p1w > p2w THEN BumpStats(BumpStats(st, d1, "wins"), d2, "losses")
        ELSE IF p2w > p1w THEN BumpStats(BumpStats(st, d1, "losses"), d2, "wins")
        ELSE BumpStats(BumpStats(st, d1, "draws"), d2, "draws")

RECURSIVE DeckStats(_)
DeckStats(ms) ==
    IF ms = <<>> THEN <<>>
    ELSE DeckStatsStep(DeckStats(SubSeq(ms, 1, Len(ms) - 1)), ms[Len(ms)])

\* lines 70-86: the archetype list; share and winrate in hundredths of a percent
ArchetypeList(deck_counts, deck_stats, total_pilots) ==
    LET order == SortDesc(deck_counts)
    IN  [i \in 1..Len(order) |->
            LET st == Stats(deck_stats, order[i][1])
                total_m == st.wins + st.losses + st.draws
            IN  [name |-> order[i][1],
                 count |-> order[i][2],
                 share |-> IF total_pilots > 0
                           THEN RoundDiv(order[i][2] * 10000, total_pilots) ELSE 0,
                 wins |-> st.wins,
                 losses |-> st.losses,
                 draws |-> st.draws,
                 total |-> total_m,
                 winrate |-> IF total_m > 0 THEN RoundDiv(st.wins * 10000, total_m) ELSE 0]]

\* lines 89: the names of the archetypes with at least one match, in list order
RECURSIVE MatrixDecks(_)
MatrixDecks(archetypes) ==
    IF archetypes = <<>> THEN <<>>
    ELSE IF Head(archetypes).total > 0
         THEN <<Head(archetypes).name>> \o MatrixDecks(Tail(archetypes))
         ELSE MatrixDecks(Tail(archetypes))

\* a cell whose rate is 0 when the two decks never met
SiteCell_NoDefault(matrix_raw, d1, d2) ==
    IF d1 = d2 THEN [mirror |-> TRUE]
    ELSE LET cell == Cell(matrix_raw, d1, d2)
             t == cell.wins + cell.losses + cell.draws
         IN  [w |-> cell.wins, l |-> cell.losses, d |-> cell.draws, t |-> t,
              wr |-> IF t > 0 THEN RoundDiv(cell.wins * 1000, t) ELSE 0]

\* lines 94-103: one cell of the matrix; wr in tenths of a percent
SiteCell(matrix_raw, d1, d2) ==
    IF d1 = d2 THEN [mirror |-> TRUE]
    ELSE LET cell == Cell(matrix_raw, d1, d2)
             w == cell.wins
             l == cell.losses
             dr == cell.draws
             t == w + l + dr
         IN  [w |-> w, l |-> l, d |-> dr, t |-> t,
              wr |-> IF t > 0 THEN RoundDiv(w * 1000, t) ELSE 500]

build_metagame(data) ==
    LET player_deck == PlayerDeck(data.matches)
        deck_counts == Counter(Values(player_deck))
        total_pilots == Len(player_deck)
        archetypes == ArchetypeList(deck_counts, DeckStats(data.matches), total_pilots)
        matrix_decks == MatrixDecks(archetypes)
        names == {matrix_decks[i] : i \in 1..Len(matrix_decks)}
    IN  [archetypes |-> archetypes,
         matrix_decks |-> matrix_decks,
         matrix |-> [p \in names \X names |->
                        SiteCell(data.matchup_matrix.matrix, p[1], p[2])],
         total_pilots |-> total_pilots,
         player_deck |-> player_deck]

(***************************************************************************)
(* The pipeline: one ingestion pass, the analysis, the export and the site *)
(* generation on the exported document.                                    *)
(***************************************************************************)
\* no call of fetch_round_matches is under way
NoFetch ==
    /\ endpoint = <<>>
    /\ fpc = "idle"
    /\ start = 0
    /\ all_matches = <<>>
    /\ requests = <<>>
    /\ received = <<>>
    /\ delays = <<>>

\* classify_archetype is not called
NoClassify ==
    /\ raw_label = <<>>
    /\ suffix = <<>>
    /\ archetype = <<>>
    /\ archetype_again = <<>>
    /\ archetype_decorated = <<>>

\* no call of scrape_tournament or of TournamentDB is under way
NoScrape ==
    /\ spc = "idle"
    /\ rounds = <<>>
    /\ round_idx = 0
    /\ rec_idx = 0
    /\ listing_log = <<>>
    /\ error_log = <<>>
    /\ force = FALSE
    /\ db = <<>>
    /\ disk = <<>>
    /\ db_before = <<>>
    /\ url_or_id = <<>>
    /\ returned = <<>>

\* no tournament page was downloaded
NoDiscovery ==
    /\ html = <<>>
    /\ round_info = <<>>

Init ==
    /\ pc = "scrape"
    /\ matches = <<>>
    /\ players = <<>>
    /\ archetype_map = <<>>
    /\ meta = <<>>
    /\ full_json = <<>>
    /\ matrix_data = <<>>
    /\ stored = <<>>
    /\ site = <<>>
    /\ NoFetch
    /\ NoDiscovery
    /\ NoScrape
    /\ NoClassify

\* scrape_tournament, lines 306-314: one record of the round
IngestRecord ==
    /\ pc = "scrape"
    /\ Len(matches) < MaxMatches
    /\ \E raw \in RawRecords :
          LET match == parse_match(raw, 1, 1)
          IN  /\ matches' = Append(matches, match)
              /\ players' = RegisterPlayer(RegisterPlayer(players, match.player1),
                                           match.player2)
    /\ UNCHANGED <<pc, archetype_map, meta, full_json, matrix_data, stored, site>>
    /\ UNCHANGED <<fetch_vars, discovery_vars, scrape_vars, db_vars, classify_vars>>

BuildArchetypeMap ==
    /\ pc = "scrape"
    /\ archetype_map' = build_archetype_map(matches)
    /\ pc' = "mapped"
    /\ UNCHANGED <<matches, players, meta, full_json, matrix_data, stored, site>>
    /\ UNCHANGED <<fetch_vars, discovery_vars, scrape_vars, db_vars, classify_vars>>

AnalyzeMetagame ==
    /\ pc = "mapped"
    /\ meta' = analyze_metagame(matches, archetype_map)
    /\ pc' = "analyzed"
    /\ UNCHANGED <<matches, players, archetype_map, full_json, matrix_data, stored, site>>
    /\ UNCHANGED <<fetch_vars, discovery_vars, scrape_vars, db_vars, classify_vars>>

ExportFullJson ==
    /\ pc = "analyzed"
    /\ full_json' = export_full_json(meta)
    /\ pc' = "exported"
    /\ UNCHANGED <<matches, players, archetype_map, meta, matrix_data, stored, site>>
    /\ UNCHANGED <<fetch_vars, discovery_vars, scrape_vars, db_vars, classify_vars>>

BuildMatchupMatrix ==
    /\ pc = "exported"
    /\ matrix_data' = build_matchup_matrix(matches)
    /\ pc' = "matrix"
    /\ UNCHANGED <<matches, players, archetype_map, meta, full_json, stored, site>>
    /\ UNCHANGED <<fetch_vars, discovery_vars, scrape_vars, db_vars, classify_vars>>

ExportJson ==
    /\ pc = "matrix"
    /\ stored' = export_json(matches, players, matrix_data)
    /\ pc' = "stored"
    /\ UNCHANGED <<matches, players, archetype_map, meta, full_json, matrix_data, site>>
    /\ UNCHANGED <<fetch_vars, discovery_vars, scrape_vars, db_vars, classify_vars>>

BuildMetagame ==
    /\ pc = "stored"
    /\ site' = build_metagame(stored)
    /\ pc' = "site"
    /\ UNCHANGED <<matches, players, archetype_map, meta, full_json, matrix_data, stored>>
    /\ UNCHANGED <<fetch_vars, discovery_vars, scrape_vars, db_vars, classify_vars>>

Next ==
    \/ IngestRecord
    \/ BuildArchetypeMap
    \/ AnalyzeMetagame
    \/ ExportFullJson
    \/ BuildMatchupMatrix
    \/ ExportJson
    \/ BuildMetagame

Spec == Init /\ [][Next]_vars

(***************************************************************************)
(* Round Fetcher (melee_scraper.py, fetch_round_matches).  A record of the *)
(* listing is named by its position in the listing, counted from 1.        *)
(***************************************************************************)
\* page_size = 500
page_size == 500

Min(a, b) == IF a < b THEN a ELSE b

\* the records of the listing at positions first+1 .. first+n
ListingRecords(first, n) == [i \in 1..n |-> first + i]

\* a listing of T records that reports recordsTotal = T and answers a
\* request at an offset with the next min(length, T - offset) records
ConsistentEndpoints == {[kind |-> "consistent", total |-> T] : T \in 0..MaxTotal}

\* a listing that answers with any short page and any recordsTotal, leaves
\* recordsTotal out, or fails
UnreliableEndpoints == {[kind |-> "unreliable"]}

\* the listing of the rounds of a tournament: it answers with short pages
\* of raw match records and any recordsTotal, or fails; it serves at most
\* `left` more records
RoundEndpoints == {[kind |-> "rounds", left |-> MaxServed]}

\* the pages of at most n raw match records
RoundPages(n) == UNION {[1..k -> RoundRecords] : k \in 0..n}

\* the JSON bodies _post_datatables can return for a request
Responses(ep, offset, length) ==
    IF ep.kind = "consistent"
    THEN LET n == IF ep.total > offset THEN Min(length, ep.total - offset) ELSE 0
         IN  {[data |-> ListingRecords(offset, n), recordsTotal |-> ep.total]}
    ELSE IF ep.kind = "unreliable"
    THEN {[data |-> ListingRecords(offset, n), recordsTotal |-> t] :
             n \in 0..MaxPage, t \in 0..MaxReported}
         \cup {[data |-> ListingRecords(offset, n)] : n \in 0..MaxPage}
    ELSE {[data |-> page, recordsTotal |-> t] :
             page \in RoundPages(Min(MaxPage, ep.left)), t \in 0..MaxReported}

\* the endpoint after it has answered with a page
AfterResponse(ep, records) ==
    IF ep.kind = "rounds" THEN [ep EXCEPT !.left = ep.left - Len(records)] ELSE ep

\* whether _post_datatables can raise (network or JSON error)
CanRaise(ep) == ep.kind # "consistent"

\* a loop exit that ignores the reported total
LoopEnds_OnEmptyOnly(all, records, total) == records = <<>>

\* the loop exit that ignores an empty page
LoopEnds_OnTotalOnly(all, records, total) == Len(all) >= total

\* if len(all_matches) >= total or not records: break
LoopEnds(all, records, total) == Len(all) >= total \/ records = <<>>

\* start += page_size, skipped
NextStart_Stuck(offset) == offset

\* start += page_size
NextStart(offset) == offset + page_size

\* a loop that sends the next request without reading the response
AfterRequest_NoWait == "send"

\* data = _post_datatables(...), line 201: the call blocks until the
\* response is read or an exception is raised
AfterRequest == "wait"

\* a loop without line 209
AfterPage_NoDelay == "send"

\* the loop goes on: time.sleep(REQUEST_DELAY), line 209, comes before the
\* next request
AfterPage == "sleep"

\* the call of fetch_round_matches begins: lines 194-198
FetchBegins ==
    /\ fpc = "send"
    /\ start = 0
    /\ all_matches = <<>>
    /\ requests = <<>>
    /\ received = <<>>
    /\ delays = <<>>

\* _post_datatables(url, ctx, referer, start=start, length=page_size): the
\* request leaves
SendPage ==
    /\ fpc = "send"
    /\ requests' = Append(requests, start)
    /\ fpc' = AfterRequest
    /\ UNCHANGED <<endpoint, start, all_matches, received, delays>>
    /\ UNCHANGED outside_fetch_vars

\* the response arrives: lines 201-208
ReceivePage ==
    /\ fpc = "wait"
    /\ \E data \in Responses(endpoint, start, page_size) :
          LET records == Get(data, "data", <<>>)
              total   == Get(data, "recordsTotal", 0)
              all     == all_matches \o records
          IN  /\ all_matches' = all
              /\ received' = Append(received, [records |-> Len(records),
                                                total |-> total])
              /\ endpoint' = AfterResponse(endpoint, records)
              /\ IF LoopEnds(all, records, total)
                 THEN fpc' = "done" /\ start' = start
                 ELSE fpc' = AfterPage /\ start' = NextStart(start)
    /\ UNCHANGED <<requests, delays>>
    /\ UNCHANGED outside_fetch_vars

\* a variant that swallows the exception and returns the pages gathered
FailPage_ReturnsPartial ==
    /\ fpc = "wait"
    /\ CanRaise(endpoint)
    /\ fpc' = "done"
    /\ UNCHANGED <<endpoint, start, all_matches, requests, received, delays>>
    /\ UNCHANGED outside_fetch_vars

\* the request raises: the exception leaves fetch_round_matches
FailPage ==
    /\ fpc = "wait"
    /\ CanRaise(endpoint)
    /\ fpc' = "failed"
    /\ UNCHANGED <<endpoint, start, all_matches, requests, received, delays>>
    /\ UNCHANGED outside_fetch_vars

\* time.sleep(REQUEST_DELAY), line 209
SleepBetweenPages ==
    /\ fpc = "sleep"
    /\ fpc' = "send"
    /\ delays' = Append(delays, [requests |-> Len(requests),
                                 received |-> Len(received)])
    /\ UNCHANGED <<endpoint, start, all_matches, requests, received>>
    /\ UNCHANGED outside_fetch_vars

FetchInit ==
    /\ pc = "fetch"
    /\ matches = <<>>
    /\ players = <<>>
    /\ archetype_map = <<>>
    /\ meta = <<>>
    /\ full_json = <<>>
    /\ matrix_data = <<>>
    /\ stored = <<>>
    /\ site = <<>>
    /\ NoDiscovery
    /\ NoScrape
    /\ NoClassify
    /\ endpoint \in ConsistentEndpoints \cup UnreliableEndpoints
    /\ FetchBegins

FetchNext ==
    \/ SendPage
    \/ ReceivePage
    \/ FailPage
    \/ SleepBetweenPages

FetchSpec == FetchInit /\ [][FetchNext]_vars

\* the call keeps running: the interpreter takes the next step, a request
\* is eventually answered or raises (urlopen(..., timeout=30)), and
\* time.sleep returns
FairFetchSpec == FetchSpec /\ WF_vars(FetchNext)

(***************************************************************************)
(* Round Discovery (melee_scraper.py, extract_round_ids).  A page is the   *)
(* sequence of its pieces, each with its length in characters, so that     *)
(* str.find and slicing work on character offsets (counted from 0).        *)
(***************************************************************************)
\* markup that holds no marker, no container name and no </div>
Text(n) == [kind |-> "text", len |-> n]

\* the text pairings-round-selector-container of the selector's opening tag
PairingsContainer == [kind |-> "pairings", len |-> 33]

\* the text standings-round-selector-container
StandingsContainer == [kind |-> "standings", len |-> 34]

\* </div>
EndDiv == [kind |-> "enddiv", len |-> 6]

\* the name of the r-th round
RoundName(r) ==
    CASE r = 1 -> "Round 1" [] r = 2 -> "Round 2" [] r = 3 -> "Round 3"
      [] r = 4 -> "Round 4" [] OTHER -> "Round 5"

\* data-id="10r" data-name="Round r" data-is-started="True" (or "False");
\* the first 33 characters are data-id and data-name
Marker(r, started) ==
    [kind |-> "marker", id |-> 100 + r, name |-> RoundName(r), started |-> started,
     len |-> IF started THEN 56 ELSE 57]

\* the part of a marker that data-id="(\d+)"\s+data-name="([^"]+)" matches
MarkerIdNameLen == 33

\* a selector: its container, one button per round, its closing tag
RECURSIVE Buttons(_, _, _)
Buttons(r, n, fill) ==
    IF r > n THEN <<>>
    ELSE <<Marker(r, TRUE), Text(fill)>> \o Buttons(r + 1, n, fill)

Selector(container, n, fill) == <<container>> \o Buttons(1, n, fill) \o <<EndDiv>>

\* the lengths of filler markup tried between the pieces
Fills == {0, 300, 600}

\* tournament pages with a pairings selector, with or without a standings
\* selector before or after it
PageWithSelector(before, after, n, fill, gap) ==
    (IF before THEN Selector(StandingsContainer, n, fill) ELSE <<>>)
      \o <<Text(gap)>> \o Selector(PairingsContainer, n, fill) \o <<Text(gap)>>
      \o (IF after THEN Selector(StandingsContainer, n, fill) ELSE <<>>)
      \o <<Text(600), EndDiv>>

PagesWithSelector ==
    { PageWithSelector(before, after, n, fill, gap) :
      <<before, after, n, fill, gap>> \in
          BOOLEAN \X BOOLEAN \X (0..MaxRounds) \X Fills \X Fills }

\* tournament pages without a pairings selector: buttons of started and of
\* not yet started rounds anywhere in the page
PagesWithoutSelector ==
    { <<Text(gap)>> \o [r \in 1..n |-> Marker(r, r <= open)] \o <<EndDiv>> :
      <<n, open, gap>> \in (0..MaxRounds) \X (0..MaxRounds) \X Fills }

Pages == PagesWithSelector \cup PagesWithoutSelector

\* the offset of piece i
RECURSIVE Offset(_, _)
Offset(page, i) == IF i = 1 THEN 0 ELSE Offset(page, i - 1) + page[i - 1].len

PageLen(page) == IF page = <<>> THEN 0 ELSE Offset(page, Len(page)) + page[Len(page)].len

\* the pieces of a kind that begin at or after an offset
PiecesFrom(page, kind, from) ==
    {i \in 1..Len(page) : page[i].kind = kind /\ Offset(page, i) >= from}

SetMin(S) == CHOOSE x \in S : \A y \in S : x <= y

\* html.find(text, from) for the text of a kind of piece: -1 if not found
Find(page, kind, from) ==
    IF PiecesFrom(page, kind, from) = {} THEN -1
    ELSE Offset(page, SetMin(PiecesFrom(page, kind, from)))

\* re.findall over html[lo:hi]: the markers the pattern matches, in
\* document order; the page-wide pattern also wants data-is-started="True"
RECURSIVE FindMarkers(_, _, _, _, _)
FindMarkers(page, i, lo, hi, wantStarted) ==
    IF i > Len(page) THEN <<>>
    ELSE LET m    == page[i]
             need == IF wantStarted THEN m.len ELSE MarkerIdNameLen
             hit  == /\ m.kind = "marker"
                     /\ Offset(page, i) >= lo
                     /\ Offset(page, i) + need <= hi
                     /\ wantStarted => m.started
         IN  (IF hit THEN << <<m.id, m.name>> >> ELSE <<>>)
             \o FindMarkers(page, i + 1, lo, hi, wantStarted)

\* section_end = html.find("</div>", pairings_idx + 500), or
\* pairings_idx + 5000 if there is none
SectionEnd(page, pairings_idx) ==
    IF Find(page, "enddiv", pairings_idx + 500) < 0 THEN pairings_idx + 5000
    ELSE Find(page, "enddiv", pairings_idx + 500)

extract_round_ids(page) ==
    LET pairings_idx == Find(page, "pairings", 0)
    IN  IF pairings_idx < 0
        THEN FindMarkers(page, 1, 0, PageLen(page), TRUE)
        ELSE FindMarkers(page, 1, pairings_idx,
                         Min(PageLen(page), SectionEnd(page, pairings_idx) + 200),
                         FALSE)

ExtractInit ==
    /\ pc = "discover"
    /\ matches = <<>>
    /\ players = <<>>
    /\ archetype_map = <<>>
    /\ meta = <<>>
    /\ full_json = <<>>
    /\ matrix_data = <<>>
    /\ stored = <<>>
    /\ site = <<>>
    /\ NoFetch
    /\ NoScrape
    /\ NoClassify
    /\ html \in Pages
    /\ round_info = <<>>

\* round_info = extract_round_ids(html), line 284
ExtractRoundIds ==
    /\ pc = "discover"
    /\ round_info' = extract_round_ids(html)
    /\ pc' = "discovered"
    /\ UNCHANGED <<html, matches, players, archetype_map, meta, full_json,
                   matrix_data, stored, site, fetch_vars, scrape_vars, db_vars,
                   classify_vars>>

ExtractNext == ExtractRoundIds

ExtractSpec == ExtractInit /\ [][ExtractNext]_vars

(***************************************************************************)
(* Ingestion (melee_scraper.py, scrape_tournament, called by               *)
(* manage_tournaments.py, TournamentDB.add_tournament).                    *)
(***************************************************************************)
\* the tournament the call is about
TournamentId == "339227"

\* extract_tournament_name on a page without <title>
TournamentName == "Unknown Tournament"

\* int(re.search(r"\d+", round_name).group())
RoundNumber(round_name) ==
    CASE round_name = "Round 1" -> 1 [] round_name = "Round 2" -> 2
      [] round_name = "Round 3" -> 3 [] round_name = "Round 4" -> 4 [] OTHER -> 5

\* the tournament pages the ingestion is run on: no round, two rounds
ScrapePages == {PageWithSelector(FALSE, FALSE, n, 600, 0) : n \in {0, 2}}

\* a snapshot stored by an earlier ingestion
OldSnapshot(tid) ==
    [tournament |-> [id |-> tid, name |-> "Earlier", total_rounds |-> 1,
                     total_matches |-> 0, total_players |-> 0],
     matchup_matrix |-> [decks |-> {}, matrix |-> <<>>],
     matches |-> <<>>,
     scraped_at |-> "earlier"]

\* tournaments_db.json before the call: empty, or holding another
\* tournament and an earlier snapshot of this one
InitialDisks ==
    { <<>>,
      << <<"111111", OldSnapshot("111111")>>, <<TournamentId, OldSnapshot(TournamentId)>> >> }

\* has_tournament
has_tournament(data, tid) == tid \in KeySet(data)

\* the arguments the calls of TournamentDB are given: ids, the URL of a
\* tournament, a text that is neither
Arguments ==
    {"339227", "https://melee.gg/Tournament/View/339227", "111111", "424242",
     "my tournament"}

\* extract_tournament_id: the digits after Tournament/View/, or the text
\* itself if it is all digits; None stands for the ValueError raised
extract_tournament_id(arg) ==
    CASE arg = "https://melee.gg/Tournament/View/339227" -> Some("339227")
      [] arg \in {"339227", "111111", "424242"} -> Some(arg)
      [] OTHER -> None

\* an add that scrapes whether or not the tournament is stored
AlreadyStored_Never(data, tid, forced) == FALSE

\* if self.has_tournament(tournament_id) and not force, line 122
AlreadyStored(data, tid, forced) == has_tournament(data, tid) /\ ~forced

\* a store that writes the new matches into the stored entry
StoreSnapshot_Mutate(data, tid, snapshot) ==
    IF has_tournament(data, tid)
    THEN Put(data, tid, [Lookup(data, tid, None) EXCEPT !.matches = snapshot.matches])
    ELSE Put(data, tid, snapshot)

\* self.data["tournaments"][tournament_id] = tournament_data, line 156
StoreSnapshot(data, tid, snapshot) == Put(data, tid, snapshot)

\* a removal that empties the database
Delete_All(data, tid) == <<>>

\* del self.data["tournaments"][tournament_id], line 176
Delete(data, tid) == SelectSeq(data, LAMBDA item : item[1] # tid)

\* the dict add_tournament stores: lines 137-153
tournament_data(tid, name, rs, ms, ps, md) ==
    [tournament |-> [id |-> tid, name |-> name, total_rounds |-> Len(rs),
                     total_matches |-> Len(ms), total_players |-> Len(ps)],
     matchup_matrix |-> [decks |-> md.decks, matrix |-> md.matrix],
     matches |-> md.player_matches,
     scraped_at |-> "now"]

\* the listing requests of the fetch that ends, tagged with their round
RequestsOfRound(round_id) == [k \in 1..Len(requests) |-> <<round_id, requests[k]>>]

CurrentRound == round_info[round_idx]

\* a discovery that goes on without rounds
AfterDiscovery_NoCheck(found) == IF found = <<>> THEN "scraped" ELSE "round"

\* if not round_info: sys.exit(1), lines 285-288
AfterDiscovery(found) == IF found = <<>> THEN "exit" ELSE "round"

\* a round loop without the try / except: the exception leaves the call
AfterRoundError_Propagates == "raised"

\* except Exception as e: print(...), lines 317-318: the round ends, the
\* loop goes on
AfterRoundError == "round_sleep"

\* add_tournament, lines 121-130: a stored tournament is returned as it is
\* unless force is set
AddTournament ==
    /\ spc = "add"
    /\ extract_tournament_id(url_or_id) = Some(TournamentId)
    /\ IF AlreadyStored(db, TournamentId, force)
       THEN /\ spc' = "kept"
            /\ returned' = <<"add_tournament", Lookup(db, TournamentId, None)>>
       ELSE /\ spc' = "page"
            /\ returned' = returned
    /\ UNCHANGED <<rounds, round_idx, rec_idx, listing_log, error_log,
                   tournament_vars, fetch_vars, discovery_vars,
                   force, db, disk, db_before, url_or_id>>
    /\ UNCHANGED <<pipeline_vars, classify_vars>>

\* scrape_tournament, lines 279-295: the page is downloaded and the rounds
\* are extracted; without rounds sys.exit(1) ends the call
DiscoverRounds ==
    /\ spc = "page"
    /\ round_info' = extract_round_ids(html)
    /\ spc' = AfterDiscovery(extract_round_ids(html))
    /\ round_idx' = IF extract_round_ids(html) = <<>> THEN round_idx ELSE 1
    /\ matches' = <<>>
    /\ players' = <<>>
    /\ rounds' = <<>>
    /\ UNCHANGED <<html, rec_idx, listing_log, error_log, fetch_vars, db_vars>>
    /\ UNCHANGED <<pipeline_vars, classify_vars>>

\* fetch_tournament_page raises: the exception leaves add_tournament
PageRaises ==
    /\ spc = "page"
    /\ spc' = "raised"
    /\ UNCHANGED <<rounds, round_idx, rec_idx, listing_log, error_log,
                   tournament_vars, fetch_vars, discovery_vars, db_vars>>
    /\ UNCHANGED <<pipeline_vars, classify_vars>>

\* lines 298-303: the round is entered into tournament.rounds and its fetch
\* is called
BeginRound ==
    /\ spc = "round"
    /\ rounds' = Put(rounds, CurrentRound[1], CurrentRound[2])
    /\ fpc' = "send"
    /\ start' = 0
    /\ all_matches' = <<>>
    /\ requests' = <<>>
    /\ received' = <<>>
    /\ delays' = <<>>
    /\ spc' = "fetch"
    /\ UNCHANGED <<endpoint, round_idx, rec_idx, listing_log, error_log,
                   tournament_vars, discovery_vars, db_vars>>
    /\ UNCHANGED <<pipeline_vars, classify_vars>>

\* fetch_round_matches returns raw_matches, its other locals are gone:
\* line 303
FetchReturns ==
    /\ spc = "fetch"
    /\ fpc = "done"
    /\ fpc' = "idle"
    /\ listing_log' = listing_log \o RequestsOfRound(CurrentRound[1])
    /\ rec_idx' = 1
    /\ spc' = "parse"
    /\ start' = 0
    /\ requests' = <<>>
    /\ received' = <<>>
    /\ delays' = <<>>
    /\ UNCHANGED <<endpoint, all_matches, rounds, round_idx, error_log,
                   tournament_vars, discovery_vars, db_vars>>
    /\ UNCHANGED <<pipeline_vars, classify_vars>>

\* fetch_round_matches raises and its locals are gone: except Exception,
\* lines 317-318
FetchRaises ==
    /\ spc = "fetch"
    /\ fpc = "failed"
    /\ fpc' = "idle"
    /\ listing_log' = listing_log \o RequestsOfRound(CurrentRound[1])
    /\ error_log' = Append(error_log, CurrentRound[1])
    /\ spc' = AfterRoundError
    /\ start' = 0
    /\ all_matches' = <<>>
    /\ requests' = <<>>
    /\ received' = <<>>
    /\ delays' = <<>>
    /\ UNCHANGED <<endpoint, rounds, round_idx, rec_idx, tournament_vars,
                   discovery_vars, db_vars>>
    /\ UNCHANGED <<pipeline_vars, classify_vars>>

\* a variant that puts each match in front of the list
ParseRecord_Prepend ==
    /\ spc = "parse"
    /\ rec_idx <= Len(all_matches)
    /\ IF ParseRaises(all_matches[rec_idx])
       THEN /\ error_log' = Append(error_log, CurrentRound[1])
            /\ spc' = AfterRoundError
            /\ UNCHANGED <<rec_idx, tournament_vars>>
       ELSE LET match == parse_match(all_matches[rec_idx],
                                     RoundNumber(CurrentRound[2]), CurrentRound[1])
            IN  /\ matches' = <<match>> \o matches
                /\ players' = RegisterPlayer(RegisterPlayer(players, match.player1),
                                             match.player2)
                /\ rec_idx' = rec_idx + 1
                /\ UNCHANGED <<spc, error_log>>
    /\ UNCHANGED <<rounds, round_idx, listing_log, fetch_vars, discovery_vars, db_vars>>
    /\ UNCHANGED <<pipeline_vars, classify_vars>>

\* one iteration of the loop over raw_matches, lines 306-314; an exception
\* of parse_match is caught at lines 317-318 and ends the round
ParseRecord ==
    /\ spc = "parse"
    /\ rec_idx <= Len(all_matches)
    /\ IF ParseRaises(all_matches[rec_idx])
       THEN /\ error_log' = Append(error_log, CurrentRound[1])
            /\ spc' = AfterRoundError
            /\ UNCHANGED <<rec_idx, tournament_vars>>
       ELSE LET match == parse_match(all_matches[rec_idx],
                                     RoundNumber(CurrentRound[2]), CurrentRound[1])
            IN  /\ matches' = Append(matches, match)
                /\ players' = RegisterPlayer(RegisterPlayer(players, match.player1),
                                             match.player2)
                /\ rec_idx' = rec_idx + 1
                /\ UNCHANGED <<spc, error_log>>
    /\ UNCHANGED <<rounds, round_idx, listing_log, fetch_vars, discovery_vars, db_vars>>
    /\ UNCHANGED <<pipeline_vars, classify_vars>>

\* the loop over raw_matches is over: line 316
RoundParsed ==
    /\ spc = "parse"
    /\ rec_idx > Len(all_matches)
    /\ spc' = "round_sleep"
    /\ UNCHANGED <<rounds, round_idx, rec_idx, listing_log, error_log,
                   tournament_vars, fetch_vars, discovery_vars, db_vars>>
    /\ UNCHANGED <<pipeline_vars, classify_vars>>

\* time.sleep(REQUEST_DELAY), line 320, then the next round or the return
SleepBetweenRounds ==
    /\ spc = "round_sleep"
    /\ IF round_idx < Len(round_info)
       THEN spc' = "round" /\ round_idx' = round_idx + 1
       ELSE spc' = "scraped" /\ round_idx' = round_idx
    /\ UNCHANGED <<rounds, rec_idx, listing_log, error_log,
                   tournament_vars, fetch_vars, discovery_vars, db_vars>>
    /\ UNCHANGED <<pipeline_vars, classify_vars>>

\* add_tournament, lines 134-169: the snapshot is built, stored and saved
StoreTournament ==
    /\ spc = "scraped"
    /\ LET snapshot == tournament_data(TournamentId, TournamentName, rounds,
                                        matches, players,
                                        build_matchup_matrix(matches))
       IN  /\ db' = StoreSnapshot(db, TournamentId, snapshot)
           /\ returned' = <<"add_tournament", snapshot>>
    /\ disk' = db'
    /\ spc' = "stored"
    /\ UNCHANGED <<force, db_before, url_or_id, rounds, round_idx, rec_idx, listing_log,
                   error_log, tournament_vars, fetch_vars, discovery_vars>>
    /\ UNCHANGED <<pipeline_vars, classify_vars>>

ScrapeInit ==
    /\ pc = "ingest"
    /\ archetype_map = <<>>
    /\ meta = <<>>
    /\ full_json = <<>>
    /\ matrix_data = <<>>
    /\ stored = <<>>
    /\ site = <<>>
    /\ matches = <<>>
    /\ players = <<>>
    /\ endpoint \in RoundEndpoints
    /\ fpc = "idle"
    /\ start = 0
    /\ all_matches = <<>>
    /\ requests = <<>>
    /\ received = <<>>
    /\ delays = <<>>
    /\ html \in ScrapePages
    /\ round_info = <<>>
    /\ spc = "add"
    /\ rounds = <<>>
    /\ round_idx = 0
    /\ rec_idx = 0
    /\ listing_log = <<>>
    /\ error_log = <<>>
    /\ force \in BOOLEAN
    /\ disk \in InitialDisks
    /\ db = disk
    /\ db_before = disk
    /\ url_or_id = TournamentId
    /\ returned = None
    /\ NoClassify

ScrapeNext ==
    \/ AddTournament
    \/ DiscoverRounds
    \/ PageRaises
    \/ BeginRound
    \/ SendPage
    \/ ReceivePage
    \/ FailPage
    \/ SleepBetweenPages
    \/ FetchReturns
    \/ FetchRaises
    \/ ParseRecord
    \/ RoundParsed
    \/ SleepBetweenRounds
    \/ StoreTournament

ScrapeSpec == ScrapeInit /\ [][ScrapeNext]_vars

(***************************************************************************)
(* TournamentDB under a sequence of calls (manage_tournaments.py, and the  *)
(* DELETE handler of server.py).  Every caller builds a TournamentDB,      *)
(* which loads the file, and makes one call on it.  The static site the    *)
(* server regenerates after a call is not part of the database and is left *)
(* out here.                                                               *)
(***************************************************************************)
\* most raw match records the listing serves to the calls made on one
\* database
MaxStored == 1

\* the arguments add_tournament is called with in the sequence: those that
\* name the tournament the model scrapes, and the text that names none
AddArguments ==
    {a \in Arguments : extract_tournament_id(a) \in {None, Some(TournamentId)}}

\* no call is under way
Ready ==
    /\ spc = "ready"
    /\ matches = <<>>
    /\ players = <<>>
    /\ round_info = <<>>
    /\ rounds = <<>>
    /\ round_idx = 0
    /\ rec_idx = 0
    /\ listing_log = <<>>
    /\ error_log = <<>>
    /\ all_matches = <<>>
    /\ force = FALSE
    /\ url_or_id = ""
    /\ returned = None

\* db = TournamentDB(); db.add_tournament(url_or_id, force): lines 68-77
\* and 119; extract_tournament_id raises ValueError on a text without id
CallAddTournament ==
    /\ spc = "ready"
    /\ \E a \in AddArguments, f \in BOOLEAN :
          /\ url_or_id' = a
          /\ force' = f
          /\ spc' = IF extract_tournament_id(a) = None THEN "raised" ELSE "add"
    /\ db' = disk
    /\ db_before' = disk
    /\ UNCHANGED <<disk, returned, rounds, round_idx, rec_idx, listing_log,
                   error_log, tournament_vars, fetch_vars, discovery_vars>>
    /\ UNCHANGED <<pipeline_vars, classify_vars>>

\* db = TournamentDB(); db.remove_tournament(url_or_id): lines 171-181
RemoveTournament ==
    /\ spc = "ready"
    /\ \E a \in Arguments :
          LET tournament_id == extract_tournament_id(a)
          IN  /\ url_or_id' = a
              /\ IF tournament_id = None
                 THEN /\ spc' = "raised"
                      /\ db' = disk
                      /\ UNCHANGED <<disk, returned>>
                 ELSE IF has_tournament(disk, tournament_id[1])
                 THEN /\ spc' = "removed"
                      /\ db' = Delete(disk, tournament_id[1])
                      /\ disk' = db'
                      /\ returned' = <<"remove_tournament", TRUE>>
                 ELSE /\ spc' = "removed"
                      /\ db' = disk
                      /\ disk' = disk
                      /\ returned' = <<"remove_tournament", FALSE>>
    /\ db_before' = disk
    /\ UNCHANGED <<force, rounds, round_idx, rec_idx, listing_log, error_log,
                   tournament_vars, fetch_vars, discovery_vars>>
    /\ UNCHANGED <<pipeline_vars, classify_vars>>

\* do_DELETE on /api/tournaments/<tid>, server.py lines 194-214: a stored
\* tournament is removed and 200 is sent, otherwise 404 is sent; the path
\* names a stored tournament or one that is not stored
DoDelete ==
    /\ spc = "ready"
    /\ \E tid \in {"339227", "111111", "424242"} :
          /\ url_or_id' = tid
          /\ IF has_tournament(disk, tid)
             THEN /\ db' = Delete(disk, extract_tournament_id(tid)[1])
                  /\ disk' = db'
                  /\ returned' = <<"do_DELETE", 200>>
             ELSE /\ db' = disk
                  /\ disk' = disk
                  /\ returned' = <<"do_DELETE", 404>>
    /\ spc' = "deleted"
    /\ db_before' = disk
    /\ UNCHANGED <<force, rounds, round_idx, rec_idx, listing_log, error_log,
                   tournament_vars, fetch_vars, discovery_vars>>
    /\ UNCHANGED <<pipeline_vars, classify_vars>>

\* the call has returned or raised and its caller is done: the
\* TournamentDB object and the locals of the call are gone
CallEnds ==
    /\ spc \in {"kept", "stored", "raised", "removed", "deleted"}
    /\ spc' = "ready"
    /\ matches' = <<>>
    /\ players' = <<>>
    /\ round_info' = <<>>
    /\ rounds' = <<>>
    /\ round_idx' = 0
    /\ rec_idx' = 0
    /\ listing_log' = <<>>
    /\ error_log' = <<>>
    /\ all_matches' = <<>>
    /\ force' = FALSE
    /\ url_or_id' = ""
    /\ returned' = None
    /\ UNCHANGED <<db, disk, db_before, html, endpoint, fpc, start, requests,
                   received, delays>>
    /\ UNCHANGED <<pipeline_vars, classify_vars>>

DbInit ==
    /\ pc = "db"
    /\ archetype_map = <<>>
    /\ meta = <<>>
    /\ full_json = <<>>
    /\ matrix_data = <<>>
    /\ stored = <<>>
    /\ site = <<>>
    /\ endpoint = [kind |-> "rounds", left |-> MaxStored]
    /\ fpc = "idle"
    /\ start = 0
    /\ requests = <<>>
    /\ received = <<>>
    /\ delays = <<>>
    /\ html \in ScrapePages
    /\ disk \in InitialDisks
    /\ db = disk
    /\ db_before = disk
    /\ Ready
    /\ NoClassify

DbNext ==
    \/ CallAddTournament
    \/ RemoveTournament
    \/ DoDelete
    \/ CallEnds
    \/ AddTournament
    \/ DiscoverRounds
    \/ PageRaises
    \/ BeginRound
    \/ SendPage
    \/ ReceivePage
    \/ FailPage
    \/ SleepBetweenPages
    \/ FetchReturns
    \/ FetchRaises
    \/ ParseRecord
    \/ RoundParsed
    \/ SleepBetweenRounds
    \/ StoreTournament

DbSpec == DbInit /\ [][DbNext]_vars

(***************************************************************************)
(* Calls of the Archetype Classifier (meta_analyzer.py) on raw labels: a   *)
(* name with parenthetical qualifiers, version markers or whitespace       *)
(* appended.                                                               *)
(***************************************************************************)
\* the names labels are built from: the names of the alias table and of the
\* records, an alias in lower case, a name no alias matches
BaseLabels ==
    {Chars[s] : s \in KnownNames}
        \cup {<<"r", "d", "w">>, <<"G", "r", "u", "u", "l">>}

\* " (q)", " v2", " #3" and a blank
Decorations ==
    { <<" ", "(", "q", ")">>, <<" ", "v", "2">>, <<" ", "#", "3">>, <<" ">> }

\* the labels with at most n decorations
RECURSIVE Labels(_)
Labels(n) ==
    IF n = 0 THEN BaseLabels
    ELSE Labels(n - 1) \cup {t \o d : t \in Labels(n - 1), d \in Decorations}

ClassifyInit ==
    /\ pc = "classify"
    /\ matches = <<>>
    /\ players = <<>>
    /\ archetype_map = <<>>
    /\ meta = <<>>
    /\ full_json = <<>>
    /\ matrix_data = <<>>
    /\ stored = <<>>
    /\ site = <<>>
    /\ NoFetch
    /\ NoDiscovery
    /\ NoScrape
    /\ raw_label \in Labels(MaxDecorations)
    /\ suffix \in Decorations
    /\ archetype = None
    /\ archetype_again = None
    /\ archetype_decorated = None

\* what the classifier leaves alone
outside_classify_vars ==
    <<archetype_map, meta, full_json, matrix_data, stored, site,
      tournament_vars, fetch_vars, discovery_vars, scrape_vars, db_vars>>

\* classify_archetype(label)
Classify ==
    /\ pc = "classify"
    /\ archetype = None
    /\ archetype' = Some(classify_chars(raw_label))
    /\ UNCHANGED <<pc, raw_label, suffix, archetype_again, archetype_decorated>>
    /\ UNCHANGED outside_classify_vars

\* classify_archetype(classify_archetype(label))
ClassifyAgain ==
    /\ pc = "classify"
    /\ archetype # None
    /\ archetype_again = None
    /\ archetype_again' = Some(classify_chars(archetype[1]))
    /\ UNCHANGED <<pc, raw_label, suffix, archetype, archetype_decorated>>
    /\ UNCHANGED outside_classify_vars

\* classify_archetype(label + suffix)
ClassifyDecorated ==
    /\ pc = "classify"
    /\ archetype_decorated = None
    /\ archetype_decorated' = Some(classify_chars(raw_label \o suffix))
    /\ UNCHANGED <<pc, raw_label, suffix, archetype, archetype_again>>
    /\ UNCHANGED outside_classify_vars

ClassifyNext ==
    \/ Classify
    \/ ClassifyAgain
    \/ ClassifyDecorated

ClassifySpec == ClassifyInit /\ [][ClassifyNext]_vars

(***************************************************************************)
(* Properties.                                                             *)
(***************************************************************************)
Analyzed == pc \in {"analyzed", "exported", "matrix", "stored", "site"}

Exported == pc \in {"exported", "matrix", "stored", "site"}

MatrixBuilt == pc \in {"matrix", "stored", "site"}

Stored == pc \in {"stored", "site"}

SiteBuilt == pc = "site"

RECURSIVE SumField(_, _)
SumField(list, field) ==
    IF list = <<>> THEN 0 ELSE Head(list)[field] + SumField(Tail(list), field)

\* the set of the names that index a matrix kept as a function on pairs
MatrixNames(mx) == {p[1] : p \in DOMAIN mx} \cup {p[2] : p \in DOMAIN mx}

\* C1: in the archetype summary of analyze_metagame and in the archetypes
\* list of build_metagame, the wins of the listed archetypes sum to the
\* same number as their losses.
C1_ListedWinsEqualLosses ==
    /\ Analyzed =>
          SumField(meta.archetypes, "wins") = SumField(meta.archetypes, "losses")
    /\ SiteBuilt =>
          SumField(site.archetypes, "wins") = SumField(site.archetypes, "losses")

\* C2: for every pair of distinct archetypes A and B the cell (A, B) of the
\* aggregated matrix mirrors the cell (B, A): wins against losses, equal
\* draws and equal totals, an absent cell counting as zeros.
MirrorCells(mx) ==
    \A a \in MatrixNames(mx) : \A b \in MatrixNames(mx) :
        a # b =>
            /\ Cell(mx, a, b).wins = Cell(mx, b, a).losses
            /\ Cell(mx, a, b).draws = Cell(mx, b, a).draws
            /\ Cell(mx, a, b).total = Cell(mx, b, a).total

\* C2: the matrices of analyze_metagame and build_matchup_matrix are
\* symmetric off the diagonal.
C2_MatrixSymmetric ==
    /\ Analyzed => MirrorCells(meta.matchup_matrix)
    /\ MatrixBuilt => MirrorCells(matrix_data.matrix)

\* two archetypes met and each of them won at least once, in both matrices
C2_Witness ==
    /\ MatrixBuilt
    /\ \E a \in MatrixNames(meta.matchup_matrix) : \E b \in MatrixNames(meta.matchup_matrix) :
          a # b /\ Cell(meta.matchup_matrix, a, b).wins > 0
                /\ Cell(meta.matchup_matrix, a, b).losses > 0
    /\ \E a \in MatrixNames(matrix_data.matrix) : \E b \in MatrixNames(matrix_data.matrix) :
          a # b /\ Cell(matrix_data.matrix, a, b).wins > 0
                /\ Cell(matrix_data.matrix, a, b).draws > 0

\* C3: in the matrix of build_metagame and in the matchup_matrix written by
\* export_full_json and export_json, every diagonal cell (A, A) is the mirror
\* sentinel and carries no wins, losses, draws or total.
IsSentinel(cell) ==
    /\ "mirror" \in DOMAIN cell
    /\ DOMAIN cell \cap {"wins", "losses", "draws", "total", "w", "l", "d", "t"} = {}

DiagonalIsSentinel(mx) == \A p \in DOMAIN mx : p[1] = p[2] => IsSentinel(mx[p])

\* C3: every diagonal cell handed to collaborators is the mirror sentinel.
C3_DiagonalIsMirrorSentinel ==
    /\ SiteBuilt => DiagonalIsSentinel(site.matrix)
    /\ Exported => DiagonalIsSentinel(full_json.matchup_matrix)
    /\ Stored => DiagonalIsSentinel(stored.matchup_matrix.matrix)

\* C4: matrix_decks of build_metagame holds exactly the archetypes that took
\* part in at least one match of the document with both decklist labels.
ContributingDecks(data) ==
    UNION {{data.matches[i].player1_deck, data.matches[i].player2_deck} :
              i \in {j \in 1..Len(data.matches) :
                        /\ Get(data.matches[j], "player1_deck", "") # ""
                        /\ Get(data.matches[j], "player2_deck", "") # ""}}

\* C4: matrix_decks is exactly the set of decks with a contributing match.
C4_MatrixDecksAreContributing ==
    SiteBuilt =>
        {site.matrix_decks[i] : i \in 1..Len(site.matrix_decks)} = ContributingDecks(stored)

\* C5: every match with both decklist labels present is counted exactly
\* once: it adds 1 to the total of both cells of its pairing and one outcome
\* to each side, decided by the win counters.
HasBothLabels(m) == Truthy(m.player1_decklist) /\ Truthy(m.player2_decklist)

IsCounted(m) == HasBothLabels(m) /\ ~m.is_bye /\ m.player1 # None /\ m.player2 # None

P1Outcome(m) ==
    IF m.player1_wins > m.player2_wins THEN "wins"
    ELSE IF m.player2_wins > m.player1_wins THEN "losses" ELSE "draws"

P2Outcome(m) ==
    IF m.player2_wins > m.player1_wins THEN "wins"
    ELSE IF m.player1_wins > m.player2_wins THEN "losses" ELSE "draws"

\* the cell (a, b) that the matches idx of ms give, amap naming the archetypes
ExpectedCell(ms, idx, amap, a, b) ==
    LET s1(f) == Cardinality({i \in idx : /\ amap[ms[i].player1_decklist[1]] = a
                                          /\ amap[ms[i].player2_decklist[1]] = b
                                          /\ P1Outcome(ms[i]) = f})
        s2(f) == Cardinality({i \in idx : /\ amap[ms[i].player2_decklist[1]] = a
                                          /\ amap[ms[i].player1_decklist[1]] = b
                                          /\ P2Outcome(ms[i]) = f})
    IN  [wins |-> s1("wins") + s2("wins"),
         losses |-> s1("losses") + s2("losses"),
         draws |-> s1("draws") + s2("draws"),
         total |-> s1("wins") + s2("wins") + s1("losses") + s2("losses")
                   + s1("draws") + s2("draws")]

\* the counters of archetype a that the matches idx of ms give
ExpectedStats(ms, idx, amap, a) ==
    LET s1(f) == Cardinality({i \in idx : /\ amap[ms[i].player1_decklist[1]] = a
                                          /\ P1Outcome(ms[i]) = f})
        s2(f) == Cardinality({i \in idx : /\ amap[ms[i].player2_decklist[1]] = a
                                          /\ P2Outcome(ms[i]) = f})
    IN  [wins |-> s1("wins") + s2("wins"),
         losses |-> s1("losses") + s2("losses"),
         draws |-> s1("draws") + s2("draws")]

RawLabels == [l \in DeckNames(matches) |-> l]

Range(f) == {f[x] : x \in DOMAIN f}

CountedExactlyOnce(idx) ==
    /\ Analyzed =>
          /\ \A a \in Range(archetype_map) : \A b \in Range(archetype_map) :
                Cell(meta.matchup_matrix, a, b)
                    = ExpectedCell(matches, idx, archetype_map, a, b)
          /\ \A a \in Range(archetype_map) :
                Stats(meta.arch_stats, a) = ExpectedStats(matches, idx, archetype_map, a)
    /\ MatrixBuilt =>
          \A a \in DeckNames(matches) : \A b \in DeckNames(matches) :
              Cell(matrix_data.matrix, a, b) = ExpectedCell(matches, idx, RawLabels, a, b)

\* C5 as stated: the counted matches are those with both labels present
C5_EveryLabelledMatchCounted ==
    CountedExactlyOnce({i \in 1..Len(matches) : HasBothLabels(matches[i])})

\* C5 amended: the counted matches are those with both labels present that
\* are not flagged as a bye and have both players
C5_EveryLabelledNonByeMatchCounted ==
    CountedExactlyOnce({i \in 1..Len(matches) : IsCounted(matches[i])})

\* three counted matches 3-1, 1-2, 1-1 between two archetypes give each of
\* them one win, one loss and one draw
C5_Witness ==
    /\ MatrixBuilt
    /\ Cell(meta.matchup_matrix, "Izzet Prowess", "Mono-Red Aggro")
          = [wins |-> 1, losses |-> 1, draws |-> 1, total |-> 3]
    /\ Cell(meta.matchup_matrix, "Mono-Red Aggro", "Izzet Prowess")
          = [wins |-> 1, losses |-> 1, draws |-> 1, total |-> 3]
    /\ Stats(meta.arch_stats, "Izzet Prowess") = [wins |-> 1, losses |-> 1, draws |-> 1]
    /\ Cell(matrix_data.matrix, "UR Prowess v2", "Mono-Red Aggro")
          = [wins |-> 1, losses |-> 1, draws |-> 1, total |-> 3]
    /\ \A i \in 1..Len(matches) : IsCounted(matches[i])

\* C6: a match missing one or both decklist labels changes no counter and
\* no matrix cell: when the pass has finished, the counters and the matrices
\* equal those computed from the list without such matches.
LabelledOnly == SelectSeq(matches, HasBothLabels)

C6_UnlabelledMatchesChangeNothing ==
    SiteBuilt =>
        LET amap == build_archetype_map(LabelledOnly)
            other_meta == analyze_metagame(LabelledOnly, amap)
            other_matrix == build_matchup_matrix(LabelledOnly)
            other_site == build_metagame(export_json(LabelledOnly, players, other_matrix))
        IN  /\ meta.arch_stats = other_meta.arch_stats
            /\ meta.matchup_matrix = other_meta.matchup_matrix
            /\ matrix_data.matrix = other_matrix.matrix
            /\ \A i \in 1..Len(site.archetypes) :
                  \A j \in 1..Len(other_site.archetypes) :
                      site.archetypes[i].name = other_site.archetypes[j].name =>
                          /\ site.archetypes[i].wins = other_site.archetypes[j].wins
                          /\ site.archetypes[i].losses = other_site.archetypes[j].losses
                          /\ site.archetypes[i].draws = other_site.archetypes[j].draws
            /\ site.matrix = other_site.matrix

\* a pass with a counted match, a match missing one label and a match
\* missing both
C6_Witness ==
    /\ SiteBuilt
    /\ \E i \in 1..Len(matches) : IsCounted(matches[i])
    /\ \E i \in 1..Len(matches) :
          /\ ~matches[i].is_bye /\ matches[i].player2 # None
          /\ Truthy(matches[i].player1_decklist) /\ ~Truthy(matches[i].player2_decklist)
    /\ \E i \in 1..Len(matches) :
          ~Truthy(matches[i].player1_decklist) /\ ~Truthy(matches[i].player2_decklist)

\* C7: the resolved archetype of every player that has a decklist label in
\* some match is classify(label) of the last match in which the player has
\* a label, in analyze_metagame and in build_metagame on the stored data.
HasLabelAt(ms, i, id) ==
    \/ ms[i].player1 # None /\ ms[i].player1[1].id = id /\ Truthy(ms[i].player1_decklist)
    \/ ms[i].player2 # None /\ ms[i].player2[1].id = id /\ Truthy(ms[i].player2_decklist)

LabelledIds(ms) == {id \in 0..4 : \E i \in 1..Len(ms) : HasLabelAt(ms, i, id)}

LastLabel(ms, id) ==
    LET last == CHOOSE i \in 1..Len(ms) :
                    /\ HasLabelAt(ms, i, id)
                    /\ \A j \in (i + 1)..Len(ms) : ~HasLabelAt(ms, j, id)
    IN  IF ms[last].player2 # None /\ ms[last].player2[1].id = id
           /\ Truthy(ms[last].player2_decklist)
        THEN ms[last].player2_decklist[1]
        ELSE ms[last].player1_decklist[1]

NameOfId(ms, id) ==
    LET i == CHOOSE j \in 1..Len(ms) : HasLabelAt(ms, j, id)
    IN  IF ms[i].player1 # None /\ ms[i].player1[1].id = id
        THEN ms[i].player1[1].display_name
        ELSE ms[i].player2[1].display_name

\* C7: each labelled player resolves to classify(last label) in the analysis
\* and in the site data.
C7_ResolvedIsLastLabel ==
    /\ Analyzed =>
          /\ KeySet(meta.player_archetypes) = LabelledIds(matches)
          /\ \A id \in LabelledIds(matches) :
                Lookup(meta.player_archetypes, id, "")
                    = classify_archetype(LastLabel(matches, id))
    /\ SiteBuilt =>
          \A id \in LabelledIds(matches) :
              Lookup(site.player_deck, NameOfId(matches, id), "")
                  = classify_archetype(LastLabel(matches, id))

\* C8: the pilot count of an archetype is the number of distinct player ids
\* whose resolved archetype it is.

\* the ids and last labels that the matches of the stored document carry
StoredIdx(ms) == {i \in 1..Len(ms) : IsCounted(ms[i])}

StoredIds(ms) ==
    {ms[i].player1[1].id : i \in StoredIdx(ms)} \cup {ms[i].player2[1].id : i \in StoredIdx(ms)}

LastStoredLabel(ms, id) ==
    LET last == CHOOSE i \in StoredIdx(ms) :
                    /\ id \in {ms[i].player1[1].id, ms[i].player2[1].id}
                    /\ \A j \in StoredIdx(ms) :
                          j > i => id \notin {ms[j].player1[1].id, ms[j].player2[1].id}
    IN  IF ms[last].player2[1].id = id THEN ms[last].player2_decklist[1]
        ELSE ms[last].player1_decklist[1]

\* the count a summary list reports for a name (0 when it is not listed)
ListedCount(list, name) ==
    IF \E i \in 1..Len(list) : list[i].name = name
    THEN (CHOOSE e \in {list[i] : i \in 1..Len(list)} : e.name = name).count
    ELSE 0

\* C8: each listed pilot count is the number of distinct player ids resolved
\* to that archetype.
C8_PilotsAreDistinctIds ==
    /\ Analyzed =>
          \A a \in Range(archetype_map) :
              ListedCount(meta.archetypes, a)
                  = Cardinality({id \in LabelledIds(matches) :
                                    Lookup(meta.player_archetypes, id, "") = a})
    /\ SiteBuilt =>
          /\ site.total_pilots = Cardinality(StoredIds(matches))
          /\ \A d \in DeckNames(matches) :
                ListedCount(site.archetypes, d)
                    = Cardinality({id \in StoredIds(matches) :
                                      LastStoredLabel(matches, id) = d})

\* C9: the pilot counts of the summary sum to the number of pilots with a
\* known deck; the shares then sum to 100, and with no pilot the list is
\* empty and nothing is divided.
C9_SharesSumTo100 ==
    /\ Analyzed =>
          /\ SumField(meta.archetypes, "count") = meta.total_players
          /\ Len(meta.meta_share) = Len(meta.archetypes)
          /\ \A i \in 1..Len(meta.meta_share) : meta.meta_share[i].den > 0
          /\ meta.total_players > 0 =>
                SumField(meta.meta_share, "num") = 100 * meta.total_players
          /\ meta.total_players = 0 => meta.archetypes = <<>>
    /\ SiteBuilt =>
          /\ SumField(site.archetypes, "count") = site.total_pilots
          /\ site.total_pilots > 0 =>
                /\ SumField(site.archetypes, "share") - 10000 <= Len(site.archetypes)
                /\ 10000 - SumField(site.archetypes, "share") <= Len(site.archetypes)
          /\ site.total_pilots = 0 => site.archetypes = <<>>

\* two archetypes share three or more pilots, one of them with two pilots
C9_Witness ==
    /\ SiteBuilt
    /\ meta.total_players >= 3
    /\ Len(meta.archetypes) = 2
    /\ site.total_pilots = 3
    /\ Len(site.archetypes) = 2

\* C10: the archetype summary lists are ordered by pilot count,
\* non-increasing.
C10_SummaryOrderedByPilots ==
    /\ Analyzed =>
          \A i \in 1..(Len(meta.archetypes) - 1) :
              meta.archetypes[i].count >= meta.archetypes[i + 1].count
    /\ Exported =>
          \A i \in 1..(Len(full_json.archetypes) - 1) :
              full_json.archetypes[i].pilots >= full_json.archetypes[i + 1].pilots
    /\ SiteBuilt =>
          \A i \in 1..(Len(site.archetypes) - 1) :
              site.archetypes[i].count >= site.archetypes[i + 1].count

\* the archetype seen first has fewer pilots than the one seen second, in
\* the analysis and in the site data
C10_Witness ==
    /\ SiteBuilt
    /\ Len(meta.archetypes) = 2
    /\ meta.archetypes[1].count > meta.archetypes[2].count
    /\ meta.meta_share[1].name = meta.archetypes[2].name
    /\ full_json.archetypes[1].pilots > full_json.archetypes[2].pilots
    /\ Len(site.archetypes) = 2
    /\ site.archetypes[1].count > site.archetypes[2].count
    /\ site.player_deck[1][2] = site.archetypes[2].name

(***************************************************************************)
(* Properties of the Round Fetcher.                                        *)
(***************************************************************************)
Fetching == pc = "fetch"

FetchReturned == Fetching /\ fpc = "done"

\* ceil(a / b)
CeilDiv(a, b) == (a + b - 1) \div b

ExpectedRequests(T) == IF T = 0 THEN 1 ELSE CeilDiv(T, page_size)

\* the records of the pages received, in the order received
RECURSIVE PagesReceived(_)
PagesReceived(k) ==
    IF k = 0 THEN <<>>
    ELSE PagesReceived(k - 1) \o ListingRecords(requests[k], received[k].records)

\* C11: against a consistent listing of T records, fetch_round_matches
\* requests the offsets 0, P, 2P, ... only, and returns after exactly
\* max(1, ceil(T / P)) requests with exactly the T records of the listing.
C11_ConsistentListingFetchedInPages ==
    (Fetching /\ endpoint.kind = "consistent") =>
        /\ \A k \in 1..Len(requests) : requests[k] = (k - 1) * page_size
        /\ Len(requests) <= ExpectedRequests(endpoint.total)
        /\ fpc = "done" =>
              /\ Len(requests) = ExpectedRequests(endpoint.total)
              /\ all_matches = ListingRecords(0, endpoint.total)

\* a listing of 1234 records was fetched with 3 requests
C11_Witness ==
    /\ FetchReturned
    /\ endpoint.kind = "consistent"
    /\ endpoint.total = 1234
    /\ requests = <<0, 500, 1000>>
    /\ Len(all_matches) = 1234

\* C12: after a page with zero records no further request is issued,
\* whatever total the page reported, and the call returns the records of
\* the pages received before it.
C12_EmptyPageEndsFetch ==
    Fetching =>
        /\ \A k \in 1..Len(received) :
              received[k].records = 0 =>
                  /\ Len(requests) = k
                  /\ fpc = "done"
        /\ all_matches = PagesReceived(Len(received))

\* the second page was empty although the total reported was not reached
C12_Witness ==
    /\ FetchReturned
    /\ Len(received) = 2
    /\ received[1].records > 0
    /\ received[2].records = 0
    /\ received[2].total > Len(all_matches)
    /\ Len(requests) = 2

(***************************************************************************)
(* Properties of Round Discovery.                                          *)
(***************************************************************************)
Discovered == pc = "discovered"

\* piece i lies inside a selector of the kind: after its container and
\* before the closing tag that follows the container
InRegion(page, i, kind) ==
    \E c \in 1..(i - 1) :
        /\ page[c].kind = kind
        /\ \A j \in (c + 1)..(i - 1) : page[j].kind # "enddiv"

\* the markers of the pieces from i on that lie inside a selector of the kind
RECURSIVE RegionMarkers(_, _, _)
RegionMarkers(page, i, kind) ==
    IF i > Len(page) THEN <<>>
    ELSE (IF page[i].kind = "marker" /\ InRegion(page, i, kind)
          THEN << <<page[i].id, page[i].name>> >> ELSE <<>>)
         \o RegionMarkers(page, i + 1, kind)

HasPairingsSelector(page) == \E i \in 1..Len(page) : page[i].kind = "pairings"

\* the markers of started rounds anywhere in the page
RECURSIVE StartedMarkers(_, _)
StartedMarkers(page, i) ==
    IF i > Len(page) THEN <<>>
    ELSE (IF page[i].kind = "marker" /\ page[i].started
          THEN << <<page[i].id, page[i].name>> >> ELSE <<>>)
         \o StartedMarkers(page, i + 1)

\* C16: with a pairings selector in the page extract_round_ids returns
\* exactly the markers inside that selector, in document order (so no
\* marker of the standings selector and no round id twice); without one it
\* returns the markers the page-wide pattern matches.
C16_OnlyPairingsMarkers ==
    Discovered =>
        IF HasPairingsSelector(html)
        THEN round_info = RegionMarkers(html, 1, "pairings")
        ELSE round_info = StartedMarkers(html, 1)

(***************************************************************************)
(* Properties of the Match Normalizer.                                     *)
(***************************************************************************)
\* the raw records that parse_match turns into the match
RawOf(match) == {raw \in RawRecords : parse_match(raw, 1, 1) = match}

\* C17: a Match produced by parse_match has is_bye true if and only if its
\* player2 is None or its raw record carried a bye marker (ByeReason not
\* null).
C17_ByeIffNoPlayer2OrMarker ==
    \A i \in 1..Len(matches) :
        \A raw \in RawOf(matches[i]) :
            matches[i].is_bye <=>
                (matches[i].player2 = None \/ Get(raw, "ByeReason", None) # None)

(***************************************************************************)
(* Properties of the ingestion.                                            *)
(***************************************************************************)
Scraping == pc = "ingest"

\* scrape_tournament has returned its TournamentData
ScrapeReturned == Scraping /\ spc \in {"scraped", "stored"}

\* the rounds the listing was asked for, each once, in the order of their
\* first request
RECURSIVE RoundsRequested(_)
RoundsRequested(log) ==
    IF log = <<>> THEN <<>>
    ELSE LET before == RoundsRequested(SubSeq(log, 1, Len(log) - 1))
             r      == log[Len(log)][1]
         IN  IF \E i \in 1..Len(before) : before[i] = r THEN before
             ELSE Append(before, r)

RoundIds(found) == [i \in 1..Len(found) |-> found[i][1]]

\* a step in which a round's error is caught
ErrorStep == Len(error_log') = Len(error_log) + 1

\* the state part of C13: an error never ends the call, and when the call
\* has returned every discovered round was requested, in discovery order
ErrorsNeverAbort ==
    Scraping =>
        /\ error_log # <<>> => spc \notin {"exit", "raised"}
        /\ ScrapeReturned => RoundsRequested(listing_log) = RoundIds(round_info)

\* C13: an error raised while a round is fetched or parsed leaves the
\* matches and players collected so far unchanged and leads to the sleep
\* after the round, from which the next round or the return follows; when
\* scrape_tournament has returned, every discovered round was requested, in
\* discovery order.
C13_RoundErrorsAreLocal ==
    /\ []ErrorsNeverAbort
    /\ [][Scraping =>
            /\ ErrorStep => (matches' = matches /\ players' = players
                              /\ spc' = "round_sleep")
            /\ spc = "round_sleep" => spc' \in {"round", "scraped"}]_vars

\* round 101 failed while it was parsed, after one of its matches was
\* kept; round 102 was still fetched and gave a match
C13_Witness ==
    /\ Scraping
    /\ spc = "stored"
    /\ error_log = <<101>>
    /\ \E i, j \in 1..Len(matches) :
          i < j /\ matches[i].round_id = 101 /\ matches[j].round_id = 102

\* the record lacks the expected shape: Competitors missing or null
Malformed(raw) == "Competitors" \notin DOMAIN raw

\* the matches of a round that name a player
MatchesOfRound(round_id) ==
    SelectSeq(matches, LAMBDA m : m.round_id = round_id /\ m.player1 # None)

\* the matches the well-formed records of the round under way stand for
RECURSIVE WellFormedParsed(_, _)
WellFormedParsed(raws, k) ==
    IF k > Len(raws) THEN <<>>
    ELSE (IF Malformed(raws[k]) THEN <<>>
          ELSE <<parse_match(raws[k], RoundNumber(CurrentRound[2]), CurrentRound[1])>>)
         \o WellFormedParsed(raws, k + 1)

\* C14: a raw record that lacks the expected shape contributes nothing and
\* never aborts its round: when the round is over, every well-formed record
\* the round's fetch returned has been normalized and appended, in order.
C14_MalformedRecordNeverAbortsRound ==
    (Scraping /\ spc = "round_sleep") =>
        MatchesOfRound(CurrentRound[1]) = WellFormedParsed(all_matches, 1)

\* C15: without a round marker the ingestion aborts as a whole: no listing
\* request was issued, no TournamentData exists, and the stored tournaments
\* are, in memory and on disk, what they were at the call.
C15_NoRoundsAbortsIngestion ==
    Scraping =>
        /\ (spc \notin {"add", "page", "kept", "raised"} /\ round_info = <<>>)
              => spc = "exit"
        /\ spc = "exit" =>
              /\ round_info = <<>>
              /\ listing_log = <<>> /\ requests = <<>> /\ fpc = "idle"
              /\ matches = <<>> /\ players = <<>> /\ rounds = <<>>
              /\ db = db_before /\ disk = db_before

\* a forced re-ingestion of a stored tournament found no round: the earlier
\* snapshot is still stored
C15_Witness ==
    /\ Scraping
    /\ spc = "exit"
    /\ force
    /\ has_tournament(db, TournamentId)
    /\ Lookup(disk, TournamentId, None) = OldSnapshot(TournamentId)

\* the Players of the match list, in the order they are registered
RECURSIVE Occurrences(_)
Occurrences(ms) ==
    IF ms = <<>> THEN <<>>
    ELSE Occurrences(SubSeq(ms, 1, Len(ms) - 1))
         \o ms[Len(ms)].player1 \o ms[Len(ms)].player2

LastOccurrence(occ, id) ==
    occ[CHOOSE i \in 1..Len(occ) :
            occ[i].id = id /\ \A j \in (i + 1)..Len(occ) : occ[j].id # id]

\* C18: the player map holds exactly one entry per player id that occurs
\* as player1 or player2 in the match list; the entry under key k has id k
\* and is the Player of the last occurrence of k.
C18_PlayerMapDeduplicatedById ==
    Scraping =>
        LET occ == Occurrences(matches)
        IN  /\ KeySet(players) = {occ[i].id : i \in 1..Len(occ)}
            /\ Cardinality(KeySet(players)) = Len(players)
            /\ \A n \in 1..Len(players) :
                  /\ players[n][2].id = players[n][1]
                  /\ players[n][2] = LastOccurrence(occ, players[n][1])

\* player 1 occurred as Alex and later as Alexandra: one entry, the later
C18_Witness ==
    /\ Scraping
    /\ \E i, j \in 1..Len(matches) :
          /\ i < j
          /\ matches[i].player1 # None /\ matches[i].player1[1].id = 1
          /\ matches[i].player1[1].display_name = "Alex"
          /\ matches[j].player2 # None /\ matches[j].player2[1].id = 1
          /\ matches[j].player2[1].display_name = "Alexandra"
    /\ Lookup(players, 1, None).display_name = "Alexandra"
    /\ Len(players) = 3

(***************************************************************************)
(* Properties of the Archetype Classifier.                                 *)
(***************************************************************************)
\* C19: classify_archetype is idempotent: classifying the archetype of a
\* raw label gives that archetype again.
C19_ClassifyIdempotent ==
    (pc = "classify" /\ archetype # None /\ archetype_again # None) =>
        archetype_again = archetype

\* C20: a parenthetical qualifier, a trailing version marker or blanks
\* added to a label do not change its archetype.
C20_DecorationKeepsArchetype ==
    (pc = "classify" /\ archetype # None /\ archetype_decorated # None) =>
        archetype_decorated = archetype

(***************************************************************************)
(* Properties of the pacing and the order of the listing requests.         *)
(***************************************************************************)
\* the call of time.sleep made after page k was received and before any
\* later request
SleptAfterPage(k) ==
    \E i \in 1..Len(delays) : delays[i] = [requests |-> k, received |-> k]

\* C21: between two consecutive page requests of one call of
\* fetch_round_matches the delay is slept: request k+1 is issued only after
\* time.sleep was called with page k received and k requests issued.
C21_DelayBetweenPageRequests ==
    /\ \A k \in 1..(Len(requests) - 1) : SleptAfterPage(k)
    /\ Len(delays) <= Len(received)

\* three pages were requested and the delay was slept twice
C21_Witness ==
    /\ FetchReturned
    /\ Len(requests) = 3
    /\ Len(delays) = 2
    /\ SleptAfterPage(1) /\ SleptAfterPage(2)

\* the listing requests that were issued and neither answered nor failed
Outstanding ==
    Len(requests) - Len(received) - (IF fpc = "failed" THEN 1 ELSE 0)

\* the listing requests of the ingestion so far, tagged with their round
AllRequests ==
    IF spc = "fetch" THEN listing_log \o RequestsOfRound(CurrentRound[1])
    ELSE listing_log

\* the place of a round among the rounds discovered
DiscoveryIndex(round_id) ==
    CHOOSE i \in 1..Len(round_info) : round_info[i][1] = round_id

\* the state part of C22: never two requests in flight, and the requests
\* go through the rounds in discovery order
OneRequestInOrder ==
    Scraping =>
        /\ Outstanding \in {0, 1}
        /\ Outstanding = 1 <=> fpc = "wait"
        /\ \A i, j \in 1..Len(AllRequests) :
              i < j => DiscoveryIndex(AllRequests[i][1])
                          <= DiscoveryIndex(AllRequests[j][1])

\* a step that issues a listing request
RequestStep == Len(requests') = Len(requests) + 1

\* C22: during one ingestion at most one listing request is outstanding: a
\* request is issued only when every earlier request of the round was
\* answered, the fetch of a round is entered only when no fetch is under
\* way, and the requests go through the rounds in discovery order.
C22_OneOutstandingRequest ==
    /\ []OneRequestInOrder
    /\ [][Scraping =>
            /\ RequestStep => (Outstanding = 0 /\ Len(received) = Len(requests)
                                /\ spc = "fetch")
            /\ (spc # "fetch" /\ spc' = "fetch") =>
                   (fpc = "idle" /\ requests = <<>> /\ requests' = <<>>)]_vars

\* round 102 is asked for its second page: round 101 was fetched with two
\* requests before, and the first page of round 102 has been answered
C22_Witness ==
    /\ Scraping
    /\ spc = "fetch"
    /\ CurrentRound[1] = 102
    /\ fpc = "wait"
    /\ Len(requests) = 2
    /\ Len(received) = 1
    /\ listing_log = <<<<101, 0>>, <<101, 500>>>>

(***************************************************************************)
(* Properties of TournamentDB.                                             *)
(***************************************************************************)
UsingDb == pc = "db"

\* add_tournament is about to test a stored tournament without force
AddOfStored == spc = "add" /\ ~force /\ TournamentId \in KeySet(db)

\* the state part of C23: the call that kept the stored entry has returned
\* that entry, sent no request and left the database and the file as they
\* were at the call
KeptAsStored ==
    (UsingDb /\ spc = "kept") =>
        /\ returned = <<"add_tournament", Lookup(db_before, TournamentId, None)>>
        /\ db = db_before
        /\ disk = db_before
        /\ listing_log = <<>>
        /\ requests = <<>>
        /\ round_info = <<>>

\* C23: add_tournament without force for a stored id goes straight to its
\* return: no page and no listing is requested, the stored entry is
\* returned, and the database and the file stay as they were at the call;
\* so any number of such calls leaves the database as it was before them.
C23_AddOfStoredIsNoOp ==
    /\ []KeptAsStored
    /\ [][UsingDb =>
            /\ AddOfStored =>
                  (spc' = "kept" /\ db' = db /\ disk' = disk
                   /\ fetch_vars' = fetch_vars /\ discovery_vars' = discovery_vars)
            /\ spc = "kept" => (spc' = "ready" /\ db' = db /\ disk' = disk)]_vars

\* the tournament was stored by an add of this sequence, with one match;
\* a later add without force has returned that entry
C23_Witness ==
    /\ UsingDb
    /\ spc = "kept"
    /\ returned[2].scraped_at = "now"
    /\ returned[2].tournament.total_matches = 1
    /\ endpoint.left = 0

\* the snapshot add_tournament builds from what scrape_tournament returned
BuiltSnapshot ==
    tournament_data(TournamentId, TournamentName, rounds, matches, players,
                    build_matchup_matrix(matches))

\* C24: a forced re-ingestion of a stored tournament that succeeds puts the
\* newly built snapshot in the place of the stored one, whole, leaves every
\* other stored tournament and the order of the tournaments as they were,
\* and saves the result.
C24_ReingestionReplacesSnapshot ==
    (Scraping /\ spc = "stored" /\ force /\ TournamentId \in KeySet(db_before)) =>
        /\ Lookup(db, TournamentId, None) = BuiltSnapshot
        /\ returned = <<"add_tournament", BuiltSnapshot>>
        /\ Len(db) = Len(db_before)
        /\ \A i \in 1..Len(db) :
              /\ db[i][1] = db_before[i][1]
              /\ db[i][1] # TournamentId => db[i] = db_before[i]
        /\ disk = db

\* the earlier snapshot without matches was replaced by one with two
\* matches; tournament 111111 is stored as before
C24_Witness ==
    /\ Scraping
    /\ spc = "stored"
    /\ force
    /\ Lookup(db_before, TournamentId, None) = OldSnapshot(TournamentId)
    /\ Lookup(db, TournamentId, None).tournament.total_matches = 2
    /\ Lookup(db, TournamentId, None).tournament.name = TournamentName
    /\ Lookup(db, "111111", None) = OldSnapshot("111111")

\* the database is the one of the call without the tournament: the other
\* tournaments are stored as they were, in the same order
OthersKept(tid) ==
    /\ KeySet(db) = KeySet(db_before) \ {tid}
    /\ \A k \in KeySet(db) : Lookup(db, k, None) = Lookup(db_before, k, None)
    /\ \A i, j \in 1..Len(db_before) :
          (i < j /\ db_before[i][1] # tid /\ db_before[j][1] # tid) =>
              \E m, n \in 1..Len(db) :
                  m < n /\ db[m] = db_before[i] /\ db[n] = db_before[j]
    /\ Len(db) = Cardinality(KeySet(db))

\* C30: remove_tournament returns True exactly when the id was stored;
\* afterwards the id is not stored, every other tournament is stored as
\* before and the file holds the same; for an id that was not stored
\* neither self.data nor the file has changed.  do_DELETE answers 200 for
\* a stored id and 404, without any change, for one that is not stored.
C30_RemoveTournament ==
    /\ (UsingDb /\ spc = "removed") =>
          LET tid == extract_tournament_id(url_or_id)[1]
          IN  /\ returned = <<"remove_tournament", tid \in KeySet(db_before)>>
              /\ tid \notin KeySet(db)
              /\ OthersKept(tid)
              /\ disk = db
              /\ tid \notin KeySet(db_before) => (db = db_before /\ disk = db_before)
    /\ (UsingDb /\ spc = "deleted") =>
          /\ returned = <<"do_DELETE", IF url_or_id \in KeySet(db_before)
                                       THEN 200 ELSE 404>>
          /\ url_or_id \notin KeySet(db)
          /\ OthersKept(url_or_id)
          /\ disk = db
          /\ returned[2] = 404 => (db = db_before /\ disk = db_before)

\* tournament 339227, named by its URL, was removed from a database that
\* held it and tournament 111111
C30_Witness ==
    /\ UsingDb
    /\ spc = "removed"
    /\ url_or_id = "https://melee.gg/Tournament/View/339227"
    /\ returned = <<"remove_tournament", TRUE>>
    /\ KeySet(db_before) = {"111111", "339227"}
    /\ disk = << <<"111111", OldSnapshot("111111")>> >>

(***************************************************************************)
(* Properties of the outcome rule and of the derived percentages.          *)
(***************************************************************************)
\* other values of ResultString, GameDraws, ByeReasonDescription and Format
\* for a raw record: a text that names the other side as the winner with
\* drawn games, and no text at all
MisleadingTexts ==
    [ResultString |-> "Player 2 won 0-2-1", GameDraws |-> 1,
     ByeReasonDescription |-> Some("No show"), Format |-> Some("Modern")]

OtherTexts ==
    { MisleadingTexts,
      [ResultString |-> "", GameDraws |-> 0,
       ByeReasonDescription |-> None, Format |-> None] }

\* the raw record with these values
VaryRecord(raw, t) ==
    [raw EXCEPT !.ResultString = t.ResultString, !.GameDraws = t.GameDraws,
                !.ByeReasonDescription = t.ByeReasonDescription,
                !.Format = t.Format]

\* the Match with these values
VaryMatch(m, t) ==
    [m EXCEPT !.result_string = t.ResultString, !.draws = t.GameDraws,
              !.bye_reason = t.ByeReasonDescription, !.format_name = t.Format]

\* the match list with the matches at the positions S varied
VaryMatches(ms, S, t) ==
    [i \in 1..Len(ms) |-> IF i \in S THEN VaryMatch(ms[i], t) ELSE ms[i]]

\* the positions at which the two lists differ: one of them, or all
VariedPositions(n) == {{i} : i \in 1..n} \cup {1..n}

\* per-archetype wins, losses and draws of the summary
Outcomes(m) ==
    [i \in 1..Len(m.archetypes) |->
        <<m.archetypes[i].name, m.archetypes[i].wins, m.archetypes[i].losses,
          m.archetypes[i].draws>>]

\* C25: the outcome of a match depends only on its win counters and labels:
\* a match list that differs from the ingested one only in result_string,
\* draws, bye_reason or format name, at one position or at all, gives the
\* same per-archetype wins, losses and draws and the same matchup matrices;
\* parse_match takes these four fields from ResultString, GameDraws,
\* ByeReasonDescription and Format and nothing else from them.
C25_OutcomeFromCountersOnly ==
    pc = "matrix" =>
        /\ matches = <<>> =>
              \A raw \in RawRecords, t \in OtherTexts :
                  parse_match(VaryRecord(raw, t), 1, 1)
                      = VaryMatch(parse_match(raw, 1, 1), t)
        /\ build_archetype_map(VaryMatches(matches, 1..Len(matches), MisleadingTexts))
              = archetype_map
        /\ \A t \in OtherTexts :
              LET other == VaryMatches(matches, 1..Len(matches), t)
              IN  Outcomes(analyze_metagame(other, archetype_map)) = Outcomes(meta)
        /\ \A S \in VariedPositions(Len(matches)), t \in OtherTexts :
              LET other == VaryMatches(matches, S, t)
                  acc   == AccumulateAll(other, archetype_map)
              IN  /\ acc.arch_stats = meta.arch_stats
                  /\ acc.matchups = meta.matchup_matrix
                  /\ MatrixLoop(other).matrix = matrix_data.matrix

\* two counted matches, one won by each side; the varied list names the
\* other side as the winner of both and has drawn games
C25_Witness ==
    /\ pc = "matrix"
    /\ \E i, j \in 1..Len(matches) :
          /\ ~Skipped(matches[i]) /\ matches[i].player1_wins > matches[i].player2_wins
          /\ ~Skipped(matches[j]) /\ matches[j].player1_wins < matches[j].player2_wins
          /\ \E t \in OtherTexts :
                /\ VaryMatch(matches[i], t).draws > 0
                /\ VaryMatch(matches[i], t).result_string # matches[i].result_string
    /\ \E i \in 1..Len(meta.archetypes) : meta.archetypes[i].wins > 0
    /\ matrix_data.matrix # <<>>

\* the decks d1 and d2 met in a match of the stored document
Met(data, d1, d2) ==
    \E i \in 1..Len(data.matches) :
        {data.matches[i].player1_deck, data.matches[i].player2_deck} = {d1, d2}

\* the matches of the stored document the deck took part in, a mirror
\* match counted for both of its sides
Appearances(data, d) ==
    LET side1 == {i \in 1..Len(data.matches) : data.matches[i].player1_deck = d}
        side2 == {i \in 1..Len(data.matches) : data.matches[i].player2_deck = d}
    IN  Cardinality(side1) + Cardinality(side2)

\* C26: no percentage divides by zero.  An archetype of a summary without
\* a counted match has win rate 0, every other one wins / total x 100; a
\* share is taken of a positive number of pilots; an off-diagonal cell of
\* the site's matrix between two decks that never met has wins = losses =
\* draws = total = 0 and win rate 50.0, every other one wins / total x 100.
\* The 50 appears in that cell's rate only: the counters of the cells are
\* those of the stored matrix, which has no cell for the pair, and the
\* totals of the archetypes count their matches.
C26_NoDivisionByZero ==
    /\ Analyzed => \A i \in 1..Len(meta.meta_share) : meta.meta_share[i].den > 0
    /\ Exported =>
          \A i \in 1..Len(full_json.archetypes) :
              LET a == full_json.archetypes[i]
              IN  a.winrate = IF a.wins + a.losses + a.draws = 0 THEN 0
                              ELSE RoundDiv(a.wins * 10000, a.wins + a.losses + a.draws)
    /\ SiteBuilt =>
          /\ \A i \in 1..Len(site.archetypes) :
                LET a == site.archetypes[i]
                IN  /\ a.total = a.wins + a.losses + a.draws
                    /\ a.total = Appearances(stored, a.name)
                    /\ a.winrate = IF a.total = 0 THEN 0
                                   ELSE RoundDiv(a.wins * 10000, a.total)
                    /\ site.total_pilots > 0
          /\ \A p \in DOMAIN site.matrix :
                p[1] # p[2] =>
                    LET cell == site.matrix[p]
                    IN  IF Met(stored, p[1], p[2])
                        THEN /\ cell.t > 0
                             /\ cell.wr = RoundDiv(cell.w * 1000, cell.t)
                        ELSE /\ cell = [w |-> 0, l |-> 0, d |-> 0, t |-> 0, wr |-> 500]
                             /\ p \notin DOMAIN stored.matchup_matrix.matrix
                    /\ cell.t = cell.w + cell.l + cell.d

\* two decks listed in the site's matrix, each with a match, never met:
\* their cell shows 50.0 and counts nothing
C26_Witness ==
    /\ SiteBuilt
    /\ \E p \in DOMAIN site.matrix :
          /\ p[1] # p[2]
          /\ ~Met(stored, p[1], p[2])
          /\ site.matrix[p] = [w |-> 0, l |-> 0, d |-> 0, t |-> 0, wr |-> 500]
          /\ \E i \in 1..Len(site.archetypes) :
                site.archetypes[i].name = p[1] /\ site.archetypes[i].total > 0

(***************************************************************************)
(* Termination of the Round Fetcher.                                       *)
(***************************************************************************)
Max(a, b) == IF a > b THEN a ELSE b

\* the largest recordsTotal the endpoint has reported in this call (a page
\* without recordsTotal counts as 0, as the code reads it)
ReportedBound ==
    IF received = <<>> THEN 0
    ELSE CHOOSE t \in {received[k].total : k \in 1..Len(received)} :
             \A k \in 1..Len(received) : received[k].total <= t

FetchEnded == fpc \in {"done", "failed"}

\* C27 as stated: with every reported total at most N, at most N requests
\* are issued.
C27_AtMostNRequests ==
    (Fetching /\ FetchEnded) => Len(requests) <= ReportedBound

\* the requests never outnumber max(1, N)
RequestsBounded == Fetching => Len(requests) <= Max(1, ReportedBound)

\* C27, amended: fetch_round_matches ends (it returns or raises) against
\* every endpoint, also one with short or inconsistent pages; a page that
\* does not end the loop adds at least one record; with every reported
\* total at most N, at most max(1, N) requests are issued.
C27_FetchTerminates ==
    /\ []RequestsBounded
    /\ [][(Fetching /\ fpc = "wait" /\ fpc' \notin {"done", "failed"}) =>
             Len(all_matches') > Len(all_matches)]_vars
    /\ <>FetchEnded

\* against an endpoint that reported at most 3, three requests were issued
\* and the call returned with short pages
C27_Witness ==
    /\ FetchReturned
    /\ endpoint.kind = "unreliable"
    /\ ReportedBound = 3
    /\ Len(requests) = 3
    /\ \A k \in 1..Len(received) : received[k].records < received[k].total


\* ---------------------------------------------------------------------
\* A failed page request inside a round
\* ---------------------------------------------------------------------

\* the map the loop of lines 306-314 builds from a list of matches
RECURSIVE PlayersOf(_, _)
PlayersOf(ms, k) ==
    IF k = 0 THEN <<>>
    ELSE RegisterPlayer(RegisterPlayer(PlayersOf(ms, k - 1), ms[k].player1),
                        ms[k].player2)

\* the call of fetch_round_matches is over with a request left unanswered
\* after at least one page had been received
PageFailedAfterPages ==
    /\ Scraping
    /\ spc = "fetch"
    /\ fpc \notin {"send", "wait", "sleep"}
    /\ Len(requests) > Len(received)
    /\ Len(received) >= 1

\* nothing of the round under way is in the match list or the player map
NothingOfRound ==
    /\ \A i \in 1..Len(matches) : matches[i].round_id # CurrentRound[1]
    /\ players = PlayersOf(matches, Len(matches))

\* C28: when a page request of a round fails after earlier pages of the
\* round were received, the pages already fetched are discarded with the
\* failure: the round is over with no record of it in the match list or
\* the player map, and the round is still among the tournament's rounds.
C28_FailedPageDiscardsRound ==
    /\ []((Scraping /\ spc = "fetch") => NothingOfRound)
    /\ [][PageFailedAfterPages =>
             /\ spc' = "round_sleep"
             /\ all_matches' = <<>>
             /\ NothingOfRound'
             /\ Lookup(rounds', CurrentRound[1], None) = CurrentRound[2]]_vars
    /\ []((Scraping /\ spc = "round_sleep" /\ all_matches = <<>>) => NothingOfRound)

C28_Witness ==
    /\ PageFailedAfterPages
    /\ fpc = "failed"
    /\ Len(all_matches) >= 2
    /\ round_idx = 2
    /\ Len(matches) >= 1


\* ---------------------------------------------------------------------
\* Order of the match list
\* ---------------------------------------------------------------------

IsPrefix(s, t) == Len(s) <= Len(t) /\ SubSeq(t, 1, Len(s)) = s

\* the matches of the list that belong to a round, in list order
OfRound(round_id) == SelectSeq(matches, LAMBDA m : m.round_id = round_id)

\* a match of an earlier discovered round comes before a match of a later one
OrderedByRound ==
    \A i, j \in 1..Len(matches) :
        i < j => DiscoveryIndex(matches[i].round_id)
                    <= DiscoveryIndex(matches[j].round_id)

\* the matches of the round under way are the records taken so far from the
\* round's pages, in the order of the records
OrderedByRecord ==
    OfRound(CurrentRound[1]) =
        [k \in 1..(rec_idx - 1) |->
            parse_match(all_matches[k], RoundNumber(CurrentRound[2]), CurrentRound[1])]

\* C29: the match list built by scrape_tournament is ordered by round in
\* discovery order and, within a round, by the order of the records in the
\* endpoint's pages: every page is put behind the pages received before it,
\* every match is put behind the matches already in the list, and no match
\* ever changes its place.
C29_MatchListOrder ==
    /\ [](Scraping => OrderedByRound)
    /\ []((Scraping /\ (spc = "parse" \/ (spc = "round_sleep" /\ all_matches # <<>>)))
             => OrderedByRecord)
    /\ [][Scraping =>
            /\ IsPrefix(matches, matches')
            /\ (Len(received') = Len(received) + 1) =>
                  /\ IsPrefix(all_matches, all_matches')
                  /\ Len(all_matches') =
                        Len(all_matches) + received'[Len(received')].records]_vars

C29_Witness ==
    /\ Scraping
    /\ spc = "parse"
    /\ round_idx = 2
    /\ rec_idx = 3
    /\ all_matches[1] # all_matches[2]
    /\ Len(OfRound(round_info[1][1])) = 1
    /\ matches[2] # matches[3]

=============================================================================
